---- MODULE Spec2Model ----
(***************************************************************************)
(* EYEHacka vision-screening application.                                  *)
(*                                                                         *)
(* The module models four parts of the repository as state machines:       *)
(*   - the Next.js upload routes (flashlight-test, save-video),            *)
(*   - the useVideoRecording hook (recording, upload, analysis runs),      *)
(*   - the EyeTrackingAssessment component (its phase machine),            *)
(*   - the Eye Displacement Analysis Engine behind POST /upload, whose     *)
(*     source (api/app.py) is not part of the source tree and is modelled  *)
(*     from the written specification.                                     *)
(*                                                                         *)
(* JSON/JavaScript values are modelled by their JSON text ("true",         *)
(* "false", "undefined", "null", "0", "1"), so that JavaScript truthiness  *)
(* and negation are computed rather than assumed.                          *)
(***************************************************************************)
EXTENDS Integers, Sequences, FiniteSets, TLC

VARIABLES
    \* ---- upload routes (server side, Next.js) ----
    served,          \* log of the requests answered so far: input and response
    clock,           \* server wall clock, read by new Date()
    savedFiles,      \* files written to public/videos by save-video
    \* ---- analysis engine (one analysis run of POST /upload) ----
    engPc,           \* "ingest", "frames", "done" or "failed" (DecodeError)
    engTotal,        \* VideoInfo.total_frames of the video being analysed
    engNext,         \* index of the next frame of the video
    engObs,          \* the FrameObservations produced so far
    engFailed,       \* indices of the frames on which detection failed
    engDet,          \* state of the Event Detector
    engEvents,       \* the DetectionEvents emitted so far
    engEntered,      \* number of times the detector has entered InEvent
    engResult,       \* the AnalysisResult, once engPc = "done"
    \* ---- useVideoRecording hook (browser) ----
    hookVariant,     \* which version of the hook is mounted
    isRecording,     \* React state
    hasPermission,   \* React state
    permissionError, \* React state: "null" or the message
    videoStream,     \* React state: 0 (null) or the id of a stream
    streamRef,       \* streamRef.current: 0 (null) or the id of a stream
    liveStreams,     \* ids of the camera streams whose tracks are live
    streamsOpened,   \* number of streams getUserMedia has handed out
    cameraRequest,   \* pending getUserMedia call: "none", "permission", "start"
    cleanupDep,      \* videoStream as the cleanupStreams of the mounted effect saw it
    recorder,        \* mediaRecorderRef.current and the MediaRecorder behind it
    stopEvent,       \* queued 'stop' event of a MediaRecorder: its handler
    recordedChunks,  \* recordedChunksRef.current.length
    lastRecordedVideo, \* lastRecordedVideoRef.current: 0 (null) or a blob id
    blobsCreated,    \* number of video blobs created so far
    seenIsRecording, \* values of isRecording in the renders so far (closures)
    stopPromise,     \* promise of the latest stopRecording(): its state
    runs,            \* the analyzeVideoWithAPI invocations, in order
    postsSent,       \* POST /upload requests sent so far
    analysisController, \* analysisControllerRef.current: 0 (null) or a run
    isAnalyzing,     \* React state
    analysisResults, \* React state: NullResults or an AnalysisData
    analysisError,   \* React state: "null" or the message
    analysisProgress, \* React state: progress text
    \* ---- EyeTrackingAssessment component (browser) ----
    assessVariant,   \* which version of the component is mounted, or "none"
    phase,           \* React state: the screen shown; "left" once unmounted
    countdown,       \* React state
    consentChecked,  \* React state
    savedFilename,   \* React state: "null" or "file"
    permissionAwait, \* requestPermission suspended at an await: its closure
    assessment,      \* startAssessment in flight: its position and closure
    \* ---- FlashlightTest component (browser) ----
    flashVariant,    \* which version of the component is mounted, or "none"
    flTorchCap,      \* whether the camera track reports a torch capability
    flPhase,         \* React state phase; "left" once unmounted
    flVideo,         \* videoRef.current: "none", or the element's state
    flCountdown,     \* React state countdown
    flError,         \* React state: whether an error text is set
    flCameraReady,   \* React state cameraReady
    flCamera,        \* pending getUserMedia call: "none", "first", "fallback"
    flStreamRef,     \* streamRef.current: 0 (null) or the id of a stream
    flTracks,        \* ids of the camera streams whose tracks are live
    flOpened,        \* number of streams getUserMedia has handed out
    flTorch,         \* 0, or the id of the stream whose torch is on
    flCapture,       \* capturePhoto in flight: its position and locals
    flCapturedPhoto, \* React state capturedPhoto: 0 (null) or a photo id
    flPhotos,        \* number of photo blobs created so far
    flShowResult,    \* React state showResult
    flIsAnalyzing,   \* React state isAnalyzing
    flAnalysisResult, \* React state analysisResult
    flSends          \* photos whose sendToAPI fetch is in flight

routeVars == <<served, clock, savedFiles>>

engineVars == <<engPc, engTotal, engNext, engObs, engFailed, engDet, engEvents,
                engEntered, engResult>>

cameraVars == <<hasPermission, permissionError, videoStream, streamRef,
                liveStreams, streamsOpened, cameraRequest>>

recordingVars == <<isRecording, recorder, stopEvent, recordedChunks,
                   lastRecordedVideo, blobsCreated, seenIsRecording, stopPromise>>

analysisVars == <<runs, postsSent, analysisController, isAnalyzing,
                  analysisResults, analysisError, analysisProgress>>

hookVars == <<hookVariant, cameraVars, recordingVars, analysisVars, cleanupDep>>

assessVars == <<assessVariant, phase, countdown, consentChecked, savedFilename,
                permissionAwait, assessment>>

flCam == <<flCamera, flStreamRef, flTracks, flOpened, flTorch>>

flShot == <<flCapture, flCapturedPhoto, flPhotos>>

flApi == <<flShowResult, flIsAnalyzing, flAnalysisResult, flSends>>

flashVars == <<flashVariant, flTorchCap, flPhase, flVideo, flCountdown, flError,
               flCameraReady, flCam, flShot, flApi>>

vars == <<routeVars, engineVars, hookVars, assessVars, flashVars>>

----------------------------------------------------------------------------
(* Bounds of the model *)

MaxRequests == 2      \* requests answered by the routes in one behaviour
MaxPhotos == 2        \* distinct photos / files a client may send
RandomGrain == 4      \* Math.random() yields k / RandomGrain, k in 0..RandomGrain-1
MaxFrames == 7        \* frames of the video analysed step by step
MaxRuns == 2          \* analyzeVideoWithAPI invocations in one behaviour
MaxChunks == 1        \* data chunks a recording may deliver
MaxStreams == 2       \* camera streams getUserMedia hands out in one behaviour
MaxStopCalls == 2     \* stopRecording() calls in one behaviour

----------------------------------------------------------------------------
(* JavaScript values *)

\* JavaScript truthiness of a JSON value given by its text.
Truthy(v) == v \notin {"false", "undefined", "null", "0", ""}

\* JavaScript logical not: always a boolean.
JSNot(v) == IF Truthy(v) THEN "false" ELSE "true"

\* A field of a JSON body; a missing key reads as undefined.
Field(body, key) == IF key \in DOMAIN body THEN body[key] ELSE "undefined"

\* response.ok of fetch: status in the range 200-299.
IsOk(status) == status >= 200 /\ status <= 299

----------------------------------------------------------------------------
(* flashlight-test route: src/app/api/flashlight-test/route.ts *)

NoPhoto == 0
Photos == 1..MaxPhotos

\* Values the upstream /detect JSON may carry in its leukocoria key.
LeukocoriaValues == {"true", "false", "undefined", "0", "1"}

\* What the upstream detection service does with one forwarded photo.
UpstreamBehaviours ==
    [kind : {"answer"}, status : {200}, leukocoria : LeukocoriaValues]
    \cup [kind : {"answer"}, status : {503}, leukocoria : {"undefined"}]
    \cup [kind : {"reject"}, status : {0}, leukocoria : {"undefined"}]

\* The upstream service was not contacted for this request.
NoUpstream == [kind |-> "none", status |-> 0, leukocoria |-> "undefined"]

RandomDraws == 0..(RandomGrain - 1)

MsgLeukocoria == "Leukocoria detected - white/yellow pupil reflex found. Recommend immediate professional evaluation."
MsgNormal == "Normal pupil reflex - no leukocoria detected."
MsgDemoNormal == "Normal pupil reflex - no leukocoria detected (demo mode)"
MsgDemoLeukocoria == "Leukocoria detected - recommend professional evaluation (demo mode)"

\* Confidence values are kept in thousandths.
DetectionConfidence == 850

\* JSON.stringify drops a key whose value is undefined.
OptionalField(key, v) ==
    IF v = "undefined" THEN [k \in {} |-> "undefined"] ELSE (key :> v)

\* Mutant of AnalysisResponse: the negation of route.ts line 44 is forgotten.
AnalysisResponseNoNegation(hasLeukocoria, now) ==
    [status |-> 200,
     body |-> [success |-> "true",
               result |-> IF Truthy(hasLeukocoria) THEN "true" ELSE "false",
               message |-> IF Truthy(hasLeukocoria) THEN MsgLeukocoria ELSE MsgNormal,
               confidence |-> DetectionConfidence,
               timestamp |-> now,
               algorithm |-> "opencv_haar_cascade_leukocoria_detection"]
              @@ OptionalField("leukocoria", hasLeukocoria)]

\* route.ts 40-54: the response built from the upstream answer.
AnalysisResponse(hasLeukocoria, now) ==
    [status |-> 200,
     body |-> [success |-> "true",
               result |-> JSNot(hasLeukocoria),
               message |-> IF Truthy(hasLeukocoria) THEN MsgLeukocoria ELSE MsgNormal,
               confidence |-> DetectionConfidence,
               timestamp |-> now,
               algorithm |-> "opencv_haar_cascade_leukocoria_detection"]
              @@ OptionalField("leukocoria", hasLeukocoria)]

\* route.ts 56-76: the response built when the upstream call failed.
\* r1 and r2 are the two Math.random() draws, in units of 1/RandomGrain.
FallbackResponse(r1, r2, now) ==
    LET isNormal == 5 * r1 > RandomGrain      \* Math.random() > 0.2
    IN [status |-> 200,
        body |-> [success |-> "true",
                  result |-> IF isNormal THEN "true" ELSE "false",
                  leukocoria |-> IF isNormal THEN "false" ELSE "true",
                  message |-> IF isNormal THEN MsgDemoNormal ELSE MsgDemoLeukocoria,
                  confidence |-> ((300 * r2) \div RandomGrain) + 600,
                  fallback |-> "true",
                  error |-> "External API unavailable - showing demo result",
                  timestamp |-> now,
                  algorithm |-> "demo_mode_simulation"]]

\* route.ts 8-13
NoPhotoResponse ==
    [status |-> 400, body |-> [error |-> "No photo provided"]]

\* route.ts 78-88
InternalErrorResponse ==
    [status |-> 500,
     body |-> [success |-> "false",
               error |-> "Failed to process flashlight test",
               message |-> "An error occurred while analyzing the photo"]]

\* route.ts 3-89: the whole handler as a function of its inputs.
FlashlightRespond(formOk, photo, up, r1, r2, now) ==
    IF ~formOk THEN InternalErrorResponse
    ELSE IF photo = NoPhoto THEN NoPhotoResponse
    ELSE IF up.kind = "answer" /\ IsOk(up.status)
         THEN AnalysisResponse(up.leukocoria, now)
         ELSE FallbackResponse(r1, r2, now)

\* One request to POST /api/flashlight-test.
FlashlightPOST ==
    /\ Len(served) < MaxRequests
    /\ \E formOk \in BOOLEAN, photo \in Photos \cup {NoPhoto},
          up \in UpstreamBehaviours, r1 \in RandomDraws, r2 \in RandomDraws :
          served' = Append(served,
              [endpoint |-> "flashlight-test",
               formOk |-> formOk,
               file |-> IF formOk THEN photo ELSE NoPhoto,
               upstream |-> IF formOk /\ photo # NoPhoto THEN up ELSE NoUpstream,
               response |-> FlashlightRespond(formOk, photo, up, r1, r2, clock)])
    /\ clock' = clock + 1
    /\ UNCHANGED savedFiles
    /\ UNCHANGED <<engineVars, hookVars, assessVars, flashVars>>

----------------------------------------------------------------------------
(* save-video route: src/unnamed/part_008 *)

\* part_008 6-45: the handler as a function of its inputs.
SaveVideoRespond(formOk, file, writeOk) ==
    IF ~formOk THEN [status |-> 500, body |-> [error |-> "Failed to save video"]]
    ELSE IF file = NoPhoto
         THEN [status |-> 400, body |-> [error |-> "No file received"]]
    ELSE IF ~writeOk
         THEN [status |-> 500, body |-> [error |-> "Failed to save video"]]
    ELSE [status |-> 200,
          body |-> [message |-> "Video saved successfully",
                    filename |-> file,
                    path |-> file,
                    size |-> file]]

\* One request to POST /api/save-video.
SaveVideoPOST ==
    /\ Len(served) < MaxRequests
    /\ \E formOk \in BOOLEAN, file \in Photos \cup {NoPhoto}, writeOk \in BOOLEAN :
          /\ served' = Append(served,
                [endpoint |-> "save-video",
                 formOk |-> formOk,
                 file |-> IF formOk THEN file ELSE NoPhoto,
                 upstream |-> NoUpstream,
                 response |-> SaveVideoRespond(formOk, file, writeOk)])
          /\ savedFiles' = IF formOk /\ file # NoPhoto /\ writeOk
                           THEN savedFiles \cup {file}
                           ELSE savedFiles
    /\ clock' = clock + 1
    /\ UNCHANGED <<engineVars, hookVars, assessVars, flashVars>>

----------------------------------------------------------------------------
(* Eye Displacement Analysis Engine (behind POST /upload).                 *)
(* Its source, api/app.py, is not in the source tree: the engine is        *)
(* modelled from the written specification, sections 3, 4 and 8.           *)
(* Timestamps are counted in frame periods (frame index - 1).  The rolling *)
(* baseline arithmetic of the Displacement Signal Builder is not modelled: *)
(* each frame carries the displacement pair the builder derives for it.    *)

T_exit == 2           \* lower threshold of the hysteresis band
T_enter == 3          \* asymmetry must exceed this to count towards an event
MinSustain == 3       \* min_sustain: consecutive exceeding samples to enter
MinRelease == 2       \* min_release: consecutive samples below T_exit to leave
MaxAnalyzedFrames == 8  \* max_frames: cap of the Frame Sampler
MinCoverage == 500    \* minimum face_detection_rate for a verdict (50.0 percent)
EscalationCount == 2  \* events from which the risk is HIGH

Abs(x) == IF x < 0 THEN -x ELSE x

\* (left, right) displacement pairs a face-found frame may carry:
\* symmetric, exactly at T_enter, and two exceeding T_enter.
DisplacementPairs == {<<0, 0>>, <<3, 0>>, <<4, 0>>, <<0, 5>>}

\* What the external detector makes of one raw frame: a face with both
\* eyes, no face, or a detection failure on that frame.
FrameKinds ==
    {[face |-> "found", left |-> p[1], right |-> p[2]] : p \in DisplacementPairs}
    \cup {[face |-> "none", left |-> 0, right |-> 0],
          [face |-> "error", left |-> 0, right |-> 0]}

\* 4.1 Frame Sampler: the indices of the frames analysed, evenly spaced and
\* at most MaxAnalyzedFrames of them.
SampleStride(total) ==
    IF total <= MaxAnalyzedFrames THEN 1
    ELSE (total + MaxAnalyzedFrames - 1) \div MaxAnalyzedFrames

SampledIndices(total) ==
    {i \in 1..total : (i - 1) % SampleStride(total) = 0}

\* Mutant of Observe: a frame on which detection failed is passed on as a
\* frame with a face.
ObserveFailureAsFace(i, frame) ==
    [index |-> i,
     timestamp |-> i - 1,
     face_found |-> frame.face # "none",
     left |-> frame.left,
     right |-> frame.right]

\* 4.2 Per-Frame Eye Locator: the FrameObservation of frame i.  A frame on
\* which detection failed is recorded as face_found = false.
Observe(i, frame) ==
    [index |-> i,
     timestamp |-> i - 1,
     face_found |-> frame.face = "found",
     left |-> IF frame.face = "found" THEN frame.left ELSE 0,
     right |-> IF frame.face = "found" THEN frame.right ELSE 0]

\* 4.3 Displacement Signal Builder: one sample per face-found observation.
SampleOf(obs) ==
    [timestamp |-> obs.timestamp,
     left_displacement |-> obs.left,
     right_displacement |-> obs.right]

Asymmetry(smp) == Abs(smp.left_displacement - smp.right_displacement)

\* 4.4 Event Detector.
DetectorInit ==
    [mode |-> "Idle", sustain |-> 0, release |-> 0,
     onset |-> 0, peakLeft |-> 0, peakRight |-> 0]

\* The DetectionEvent of the span the detector holds.
EventOf(d) ==
    [timestamp |-> d.onset,
     left_displacement |-> d.peakLeft,
     right_displacement |-> d.peakRight,
     message |-> IF d.peakLeft > d.peakRight THEN "left" ELSE "right"]

\* Mutant of WithPeak: the event carries the values of the latest sample of
\* the span instead of those at its peak.
WithPeakLatest(d, smp) ==
    [d EXCEPT !.peakLeft = smp.left_displacement,
              !.peakRight = smp.right_displacement]

\* The detector with the peak of the span updated by sample smp.
WithPeak(d, smp) ==
    IF Asymmetry(smp) > Abs(d.peakLeft - d.peakRight)
    THEN [d EXCEPT !.peakLeft = smp.left_displacement,
                   !.peakRight = smp.right_displacement]
    ELSE d

\* Mutant of DetectorStep: a sample that does not exceed T_enter leaves the
\* sustain count standing, so exceedances are counted, consecutive or not.
DetectorStepNoReset(d, smp) ==
    IF d.mode = "Idle"
    THEN IF Asymmetry(smp) > T_enter
         THEN LET started == IF d.sustain = 0
                             THEN [DetectorInit EXCEPT !.onset = smp.timestamp]
                             ELSE d
                  counted == [WithPeak(started, smp) EXCEPT !.sustain = d.sustain + 1]
              IN [det |-> IF counted.sustain >= MinSustain
                          THEN [counted EXCEPT !.mode = "InEvent"]
                          ELSE counted,
                  emitted |-> <<>>]
         ELSE [det |-> d, emitted |-> <<>>]
    ELSE LET peaked == WithPeak(d, smp)
         IN IF Asymmetry(smp) < T_exit
            THEN IF d.release + 1 >= MinRelease
                 THEN [det |-> DetectorInit, emitted |-> <<EventOf(peaked)>>]
                 ELSE [det |-> [peaked EXCEPT !.release = d.release + 1],
                       emitted |-> <<>>]
            ELSE [det |-> [peaked EXCEPT !.release = 0], emitted |-> <<>>]

\* Mutant of DetectorStep: a sample at or above T_exit leaves the release
\* count standing, so quiet samples are counted, consecutive or not.
DetectorStepReleaseKept(d, smp) ==
    IF d.mode = "Idle"
    THEN IF Asymmetry(smp) > T_enter
         THEN LET started == IF d.sustain = 0
                             THEN [DetectorInit EXCEPT !.onset = smp.timestamp]
                             ELSE d
                  counted == [WithPeak(started, smp) EXCEPT !.sustain = d.sustain + 1]
              IN [det |-> IF counted.sustain >= MinSustain
                          THEN [counted EXCEPT !.mode = "InEvent"]
                          ELSE counted,
                  emitted |-> <<>>]
         ELSE [det |-> DetectorInit, emitted |-> <<>>]
    ELSE LET peaked == WithPeak(d, smp)
         IN IF Asymmetry(smp) < T_exit
            THEN IF d.release + 1 >= MinRelease
                 THEN [det |-> DetectorInit, emitted |-> <<EventOf(peaked)>>]
                 ELSE [det |-> [peaked EXCEPT !.release = d.release + 1],
                       emitted |-> <<>>]
            ELSE [det |-> peaked, emitted |-> <<>>]

\* One sample through the detector: the next detector state and the events
\* emitted by this sample.
DetectorStep(d, smp) ==
    IF d.mode = "Idle"
    THEN IF Asymmetry(smp) > T_enter
         THEN LET started == IF d.sustain = 0
                             THEN [DetectorInit EXCEPT !.onset = smp.timestamp]
                             ELSE d
                  counted == [WithPeak(started, smp) EXCEPT !.sustain = d.sustain + 1]
              IN [det |-> IF counted.sustain >= MinSustain
                          THEN [counted EXCEPT !.mode = "InEvent"]
                          ELSE counted,
                  emitted |-> <<>>]
         ELSE [det |-> DetectorInit, emitted |-> <<>>]
    ELSE LET peaked == WithPeak(d, smp)
         IN IF Asymmetry(smp) < T_exit
            THEN IF d.release + 1 >= MinRelease
                 THEN [det |-> DetectorInit, emitted |-> <<EventOf(peaked)>>]
                 ELSE [det |-> [peaked EXCEPT !.release = d.release + 1],
                       emitted |-> <<>>]
            ELSE [det |-> [peaked EXCEPT !.release = 0], emitted |-> <<>>]

\* Mutant of DetectorFlush: an event still open at the end of the stream is
\* dropped.
DetectorFlushDrops(d) == <<>>

\* End of the sample stream: an event still open is closed and emitted.
DetectorFlush(d) ==
    IF d.mode = "InEvent" THEN <<EventOf(d)>> ELSE <<>>

\* Largest asymmetry among the events.
RECURSIVE PeakAsymmetry(_)
PeakAsymmetry(evs) ==
    IF evs = <<>> THEN 0
    ELSE LET a == Abs(evs[1].left_displacement - evs[1].right_displacement)
             rest == PeakAsymmetry(Tail(evs))
         IN IF a > rest THEN a ELSE rest

\* Mutant of RiskOf: the event count is looked at before the coverage.
RiskOfEventsFirst(nEvents, rate) ==
    IF nEvents >= EscalationCount
    THEN [level |-> "HIGH", confidence |-> "high",
          recommendation |-> "consult a professional"]
    ELSE IF nEvents > 0
    THEN [level |-> "MEDIUM", confidence |-> "medium",
          recommendation |-> "monitor and repeat the assessment"]
    ELSE IF rate < MinCoverage
    THEN [level |-> "LOW", confidence |-> "low",
          recommendation |-> "insufficient data - poor video quality"]
    ELSE [level |-> "LOW", confidence |-> "high",
          recommendation |-> "no issues detected"]

\* 4.5 Risk Aggregator.
RiskOf(nEvents, rate) ==
    IF rate < MinCoverage
    THEN [level |-> "LOW", confidence |-> "low",
          recommendation |-> "insufficient data - poor video quality"]
    ELSE IF nEvents = 0
    THEN [level |-> "LOW", confidence |-> "high",
          recommendation |-> "no issues detected"]
    ELSE IF nEvents < EscalationCount
    THEN [level |-> "MEDIUM", confidence |-> "medium",
          recommendation |-> "monitor and repeat the assessment"]
    ELSE [level |-> "HIGH", confidence |-> "high",
          recommendation |-> "consult a professional"]

\* face_detection_rate, in tenths of a percent.
FaceRate(withFace, analyzed) ==
    IF analyzed = 0 THEN 0 ELSE (1000 * withFace) \div analyzed

\* 3 AnalysisResult, built once per run from the observations and events.
BuildResult(total, obsSeq, evs) ==
    LET withFace == Cardinality({i \in 1..Len(obsSeq) : obsSeq[i].face_found})
        rate == FaceRate(withFace, Len(obsSeq))
    IN [video_info |-> [duration |-> total, fps |-> 1, total_frames |-> total],
        analysis |-> [frames_analyzed |-> Len(obsSeq),
                      frames_with_face |-> withFace,
                      face_detection_rate |-> rate,
                      lazy_eye_detections |-> Len(evs),
                      detection_events |-> evs],
        risk_assessment |-> RiskOf(Len(evs), rate)]

\* The whole pipeline of one run as a function of the video's frames.
RECURSIVE RunPipeline(_, _, _, _, _)
RunPipeline(frames, i, obsSeq, d, evs) ==
    IF i > Len(frames)
    THEN BuildResult(Len(frames), obsSeq, evs \o DetectorFlush(d))
    ELSE IF i \notin SampledIndices(Len(frames))
    THEN RunPipeline(frames, i + 1, obsSeq, d, evs)
    ELSE LET obs == Observe(i, frames[i])
         IN IF obs.face_found
            THEN LET st == DetectorStep(d, SampleOf(obs))
                 IN RunPipeline(frames, i + 1, Append(obsSeq, obs), st.det,
                                evs \o st.emitted)
            ELSE RunPipeline(frames, i + 1, Append(obsSeq, obs), d, evs)

EngineAnalyze(frames) == RunPipeline(frames, 1, <<>>, DetectorInit, <<>>)

----------------------------------------------------------------------------
(* The engine, one frame at a time *)

\* The engine is idle: no video has been handed to it.
EngineIdle ==
    /\ engPc = "ingest"
    /\ engTotal = 0
    /\ engNext = 1
    /\ engObs = <<>>
    /\ engFailed = {}
    /\ engDet = DetectorInit
    /\ engEvents = <<>>
    /\ engEntered = 0
    /\ engResult = BuildResult(0, <<>>, <<>>)

\* Ingestion: VideoInfo is computed once; a container with no extractable
\* frame is a DecodeError.
Ingest ==
    /\ engPc = "ingest"
    /\ engPc' = IF engTotal = 0 THEN "failed" ELSE "frames"
    /\ UNCHANGED <<engTotal, engNext, engObs, engFailed, engDet, engEvents,
                   engEntered, engResult>>
    /\ UNCHANGED <<routeVars, hookVars, assessVars, flashVars>>

\* The next frame of the video: skipped by the sampler, or located, sampled
\* and fed to the detector.
ProcessFrame ==
    /\ engPc = "frames"
    /\ engNext <= engTotal
    /\ engNext' = engNext + 1
    /\ IF engNext \notin SampledIndices(engTotal)
       THEN UNCHANGED <<engObs, engFailed, engDet, engEvents, engEntered>>
       ELSE \E frame \in FrameKinds :
              LET obs == Observe(engNext, frame)
                  st == IF obs.face_found
                        THEN DetectorStep(engDet, SampleOf(obs))
                        ELSE [det |-> engDet, emitted |-> <<>>]
              IN /\ engObs' = Append(engObs, obs)
                 /\ engFailed' = IF frame.face = "error"
                                 THEN engFailed \cup {engNext}
                                 ELSE engFailed
                 /\ engDet' = st.det
                 /\ engEvents' = engEvents \o st.emitted
                 /\ engEntered' = IF engDet.mode = "Idle" /\ st.det.mode = "InEvent"
                                  THEN engEntered + 1
                                  ELSE engEntered
    /\ UNCHANGED <<engPc, engTotal, engResult>>
    /\ UNCHANGED <<routeVars, hookVars, assessVars, flashVars>>

\* End of the stream: the open event is closed, the result is built.
Finish ==
    /\ engPc = "frames"
    /\ engNext > engTotal
    /\ engEvents' = engEvents \o DetectorFlush(engDet)
    /\ engDet' = DetectorInit
    /\ engResult' = BuildResult(engTotal, engObs, engEvents')
    /\ engPc' = "done"
    /\ UNCHANGED <<engTotal, engNext, engObs, engFailed, engEntered>>
    /\ UNCHANGED <<routeVars, hookVars, assessVars, flashVars>>

----------------------------------------------------------------------------
(* useVideoRecording hook.  Four versions of the hook are in the tree:     *)
(*   "mobile"  src/app/hooks/videorec.tsx 46-500                           *)
(*   "deploy"  src/unnamed/part_007 41-315                                 *)
(*   "render"  src/unnamed/part_007 357-721                                *)
(*   "mock"    src/unnamed/part_006 7-76                                   *)
(* The browser supports MediaRecorder, the 'start' event of a recorder     *)
(* arrives within the 5 s the render version waits for it, and the caller  *)
(* starts a recording only while no recorder is recording.                 *)

HookVariants == {"mobile", "deploy", "render", "mock"}

\* JavaScript null in the analysisResults state.
NullResults == [null |-> TRUE]

\* Videos a client may upload, as the frames the engine extracts from them:
\* undecodable (no frame), a steady gaze longer than the sampler's cap with
\* a frame without a face, and two sustained deviations.
SampleVideos ==
    LET face(p) == [face |-> "found", left |-> p[1], right |-> p[2]]
        none == [face |-> "none", left |-> 0, right |-> 0]
        steady == face(<<0, 0>>)
        devL == face(<<4, 0>>)
        devR == face(<<0, 5>>)
    IN {<<>>,
        <<steady, steady, none, steady, steady, steady, steady, steady, steady,
          steady>>,
        <<devL, devL, devL, steady, steady, devR, devR, devR>>}

\* The /upload contract: 2xx with success=true and the AnalysisResult of
\* the video, or non-2xx with success=false and a message.
UploadOk(video) ==
    [status |-> 200, success |-> "true", analysis |-> EngineAnalyze(video)]

UploadFailure(status) ==
    [status |-> status, success |-> "false", analysis |-> NullResults]

\* Everything POST /upload may answer: the analysis of a decodable video,
\* 400 for an undecodable one or a missing file, 500 and 503.
ServerResponses ==
    {IF v = <<>> THEN UploadFailure(400) ELSE UploadOk(v) : v \in SampleVideos}
    \cup {UploadFailure(500), UploadFailure(503)}

\* videorec.tsx 429-450: the message shown and the progress text, by the
\* error the catch block receives.
ErrorTexts(cause) ==
    CASE cause = "AbortError" ->
           [message |-> "Analysis timed out. Server may be busy - please try again.",
            progress |-> "Analysis timed out"]
      [] cause = "API_UNAVAILABLE" ->
           [message |-> "Server unavailable. Please try again in a few minutes.",
            progress |-> "Server unavailable"]
      [] cause = "SERVER_BUSY" ->
           [message |-> "Server is busy. Please wait 1-2 minutes and try again.",
            progress |-> "Server busy"]
      [] cause = "SERVER_ERROR" ->
           [message |-> "Server error occurred. Please try again.",
            progress |-> "Server error"]
      [] cause = "Failed to fetch" ->
           [message |-> "Network issue. Check your connection and try again.",
            progress |-> "Network error"]
      [] OTHER ->
           [message |-> "Analysis failed. Please try again.",
            progress |-> "Analysis failed"]

\* Mutant of FallbackResults: more frames with a face than frames analysed.
FallbackResultsMoreFacesThanFrames(variant, errorMessage) ==
    [video_info |-> [duration |-> 20, fps |-> 30, total_frames |-> 600],
     analysis |-> [frames_analyzed |-> 600,
                   frames_with_face |-> 670,
                   face_detection_rate |-> 950,
                   lazy_eye_detections |-> 0,
                   detection_events |-> <<>>],
     risk_assessment |-> [level |-> "LOW",
                          confidence |-> "High",
                          recommendation |-> errorMessage]]

\* Mutant of FallbackResults: one detection counted, no event listed.
FallbackResultsCountWithoutEvent(variant, errorMessage) ==
    [video_info |-> [duration |-> 20, fps |-> 30, total_frames |-> 600],
     analysis |-> [frames_analyzed |-> 600,
                   frames_with_face |-> 570,
                   face_detection_rate |-> 950,
                   lazy_eye_detections |-> 1,
                   detection_events |-> <<>>],
     risk_assessment |-> [level |-> "LOW",
                          confidence |-> "High",
                          recommendation |-> errorMessage]]

\* The result the catch block of analyzeVideoWithAPI stores: videorec.tsx
\* 455-473, part_007 275-293 and 679-697.  Rates are in tenths of a percent.
FallbackResults(variant, errorMessage) ==
    IF variant = "mobile"
    THEN [video_info |-> [duration |-> 20, fps |-> 30, total_frames |-> 600],
          analysis |-> [frames_analyzed |-> 600,
                        frames_with_face |-> 570,
                        face_detection_rate |-> 950,
                        lazy_eye_detections |-> 0,
                        detection_events |-> <<>>],
          risk_assessment |-> [level |-> "LOW",
                               confidence |-> "Demo Mode - Server Issue",
                               recommendation |-> errorMessage]]
    ELSE IF variant = "deploy"
    THEN [video_info |-> [duration |-> 30, fps |-> 30, total_frames |-> 900],
          analysis |-> [frames_analyzed |-> 900,
                        frames_with_face |-> 850,
                        face_detection_rate |-> 944,
                        lazy_eye_detections |-> 0,
                        detection_events |-> <<>>],
          risk_assessment |-> [level |-> "LOW",
                               confidence |-> "High",
                               recommendation |-> "No issues detected - API connection failed, showing demo results"]]
    ELSE [video_info |-> [duration |-> 20, fps |-> 30, total_frames |-> 600],
          analysis |-> [frames_analyzed |-> 600,
                        frames_with_face |-> 570,
                        face_detection_rate |-> 950,
                        lazy_eye_detections |-> 0,
                        detection_events |-> <<>>],
          risk_assessment |-> [level |-> "LOW",
                               confidence |-> "High",
                               recommendation |-> "No issues detected (fallback - API unavailable)"]]

\* part_006 39-57: the result the mock hook stores 3 s after a stop.
MockResults ==
    [video_info |-> [duration |-> 20, fps |-> 30, total_frames |-> 600],
     analysis |-> [frames_analyzed |-> 580,
                   frames_with_face |-> 520,
                   face_detection_rate |-> 897,
                   lazy_eye_detections |-> 0,
                   detection_events |-> <<>>],
     risk_assessment |-> [level |-> "LOW",
                          confidence |-> "85%",
                          recommendation |-> "No signs of lazy eye detected. Regular check-ups recommended."]]

\* A hook whose setIsRecording(false) has no effect.
SetIsRecordingOnly(v) ==
    IF v THEN /\ isRecording' = TRUE
              /\ seenIsRecording' = seenIsRecording \cup {TRUE}
         ELSE UNCHANGED <<isRecording, seenIsRecording>>

\* setIsRecording(v), and the render that follows: closures created from
\* now on may hold v.
SetIsRecording(v) ==
    /\ isRecording' = v
    /\ seenIsRecording' = seenIsRecording \cup {v}

\* onstop handlers of a MediaRecorder: none, the one startRecording installs
\* (videorec.tsx 244-247), or the one installed by the n-th stopRecording().
NoHandler == 0
DefaultHandler == -1

NoRecorder ==
    [ref |-> FALSE, state |-> "inactive", onstop |-> NoHandler,
     startQueued |-> FALSE]

\* new MediaRecorder(stream) followed by start(): videorec.tsx 225-250,
\* part_007 111-128 and 468-500.
NewRecorder ==
    [ref |-> TRUE, state |-> "recording",
     onstop |-> IF hookVariant = "mobile" THEN DefaultHandler ELSE NoHandler,
     startQueued |-> hookVariant \in {"mobile", "render"}]

\* The hook right after mounting.
HookIdle ==
    /\ isRecording = FALSE
    /\ hasPermission = FALSE
    /\ permissionError = "null"
    /\ videoStream = 0
    /\ streamRef = 0
    /\ liveStreams = {}
    /\ streamsOpened = 0
    /\ cameraRequest = "none"
    /\ cleanupDep = 0
    /\ recorder = NoRecorder
    /\ stopEvent = FALSE
    /\ recordedChunks = 0
    /\ lastRecordedVideo = 0
    /\ blobsCreated = 0
    /\ seenIsRecording = {FALSE}
    /\ stopPromise = [call |-> 0, state |-> "idle"]
    /\ runs = <<>>
    /\ postsSent = 0
    /\ analysisController = 0
    /\ isAnalyzing = FALSE
    /\ analysisResults = NullResults
    /\ analysisError = "null"
    /\ analysisProgress = ""

----------------------------------------------------------------------------
(* analyzeVideoWithAPI: one run per invocation *)

\* The invocation of analyzeVideoWithAPI up to its first await: videorec.tsx
\* 335-342, part_007 225-245 and 620-648; for the mock hook, part_006 37-38.
\* The deploy and render versions send POST /upload at once; the mobile
\* version first awaits GET /health.
analyzeVideoWithAPI(origin, call, blob) ==
    LET uploads == hookVariant \in {"deploy", "render"}
        run == [origin |-> origin,
                call |-> call,
                blob |-> blob,
                pc |-> CASE hookVariant = "mobile" -> "health"
                         [] hookVariant = "mock" -> "mock"
                         [] OTHER -> "upload",
                posts |-> IF uploads THEN 1 ELSE 0,
                timer |-> IF uploads THEN "armed" ELSE "unset",
                interval |-> "unset",
                abortedBy |-> "none",
                stored |-> "none"]
    IN /\ runs' = Append(runs, run)
       /\ postsSent' = postsSent + run.posts
       /\ analysisController' = IF hookVariant = "render" THEN Len(runs) + 1
                                ELSE analysisController
       /\ isAnalyzing' = TRUE
       /\ analysisError' = IF hookVariant = "mobile" THEN "null"
                           ELSE analysisError
       /\ analysisProgress' = IF hookVariant = "mobile"
                              THEN "Checking API availability..."
                              ELSE analysisProgress
       /\ UNCHANGED analysisResults

\* The end of run i: the success path or the catch block, the finally
\* block, and the rest of the onstop handler that awaited the run.
\* videorec.tsx 417-480 and 300-306; part_007 257-300 and 189-205;
\* part_007 664-705 and 590-597.
\* responded: the response had arrived, so timer and interval were cleared.
\* A finished run no longer holds the blob or the promise of its caller.
EndRun(i, cause, responded, data) ==
    LET ok == cause = "ok"
        texts == ErrorTexts(cause)
        resumesStop == runs[i].origin = "stop"
    IN /\ runs' = [runs EXCEPT ![i] =
                     [@ EXCEPT !.pc = "done",
                               !.call = 0,
                               !.blob = 0,
                               !.stored = IF ok THEN "server" ELSE "fallback",
                               !.timer = IF responded /\ @ = "armed"
                                         THEN "cleared" ELSE @,
                               !.interval = IF responded /\ @ = "armed"
                                            THEN "cleared" ELSE @]]
       /\ analysisResults' = IF ok THEN data
                             ELSE FallbackResults(hookVariant, texts.message)
       /\ analysisError' = IF hookVariant = "mobile" /\ ~ok THEN texts.message
                           ELSE analysisError
       /\ analysisProgress' =
             IF hookVariant # "mobile" THEN analysisProgress
             ELSE IF ok THEN "Analysis completed successfully!"
             ELSE texts.progress
       /\ isAnalyzing' = FALSE
       /\ analysisController' = IF hookVariant = "render" THEN 0
                                ELSE analysisController
       /\ stopPromise' = IF /\ resumesStop
                            /\ stopPromise.call = runs[i].call
                            /\ stopPromise.state = "pending"
                         THEN [stopPromise EXCEPT !.state = "file"]
                         ELSE stopPromise
       /\ IF resumesStop /\ hookVariant = "deploy"
          THEN /\ liveStreams' = liveStreams \ {streamRef}
               /\ SetIsRecording(FALSE)
               /\ videoStream' = 0
          ELSE UNCHANGED <<liveStreams, isRecording, seenIsRecording, videoStream>>
       /\ UNCHANGED <<hookVariant, hasPermission, permissionError, streamRef,
                      streamsOpened, cameraRequest, recorder, stopEvent,
                      recordedChunks, lastRecordedVideo, blobsCreated, postsSent>>

\* videorec.tsx 342-392: GET /health answers (or is rejected); a healthy
\* service is followed by the one POST /upload of the run.
HealthAnswer ==
    /\ \E i \in 1..Len(runs), healthy \in BOOLEAN :
          /\ runs[i].pc = "health"
          /\ IF healthy
             THEN /\ runs' = [runs EXCEPT ![i] =
                                [@ EXCEPT !.pc = "upload",
                                          !.posts = @ + 1,
                                          !.timer = "armed",
                                          !.interval = "armed"]]
                  /\ postsSent' = postsSent + 1
                  /\ analysisProgress' = "Uploading video..."
                  /\ UNCHANGED <<analysisController, isAnalyzing, analysisResults,
                                 analysisError>>
                  /\ UNCHANGED <<hookVariant, cameraVars, recordingVars>>
             ELSE EndRun(i, "API_UNAVAILABLE", FALSE, NullResults)
    /\ UNCHANGED <<routeVars, engineVars, flashVars, assessVars, cleanupDep>>

\* videorec.tsx 365-386: the 3 s progress interval fires.  It is cleared
\* only when the response arrives.
ProgressTick ==
    /\ \E i \in 1..Len(runs) :
          /\ runs[i].interval = "armed"
          /\ analysisProgress # "Processing..."
          /\ analysisProgress' = "Processing..."
    /\ UNCHANGED <<runs, postsSent, analysisController, isAnalyzing,
                   analysisResults, analysisError>>
    /\ UNCHANGED <<hookVariant, cameraVars, recordingVars>>
    /\ UNCHANGED <<routeVars, engineVars, flashVars, assessVars, cleanupDep>>

\* The error thrown for a response, "ok" if none is: videorec.tsx 402-415,
\* part_007 250-263 and 655-665.
ResponseCause(resp) ==
    IF ~IsOk(resp.status)
    THEN IF hookVariant # "mobile" THEN "API Error"
         ELSE IF resp.status = 503 THEN "SERVER_BUSY"
         ELSE IF resp.status >= 500 THEN "SERVER_ERROR"
         ELSE "UPLOAD_FAILED"
    ELSE IF hookVariant = "mobile" /\ ~Truthy(resp.success) THEN "ANALYSIS_FAILED"
    ELSE IF /\ hookVariant = "deploy"
            /\ ~(Truthy(resp.success) /\ resp.analysis # NullResults)
         THEN "Analysis failed"
    ELSE "ok"

\* The value stored for a 2xx response: result.analysis, and in the render
\* version the whole body when it has no analysis (part_007 664).
ResponseData(resp) ==
    IF hookVariant = "render" /\ resp.analysis = NullResults
    THEN [success |-> resp.success]
    ELSE resp.analysis

\* The response to POST /upload arrives.
UploadAnswer ==
    /\ \E i \in 1..Len(runs), resp \in ServerResponses :
          /\ runs[i].pc = "upload"
          /\ EndRun(i, ResponseCause(resp), TRUE, ResponseData(resp))
    /\ UNCHANGED <<routeVars, engineVars, flashVars, assessVars, cleanupDep>>

\* Mutant of UploadReject: a rejected upload is sent once more.
UploadRejectResend ==
    /\ \E i \in 1..Len(runs) :
          /\ runs[i].pc = "upload"
          /\ runs[i].posts <= MaxRuns
          /\ runs' = [runs EXCEPT ![i] = [@ EXCEPT !.posts = @ + 1]]
          /\ postsSent' = postsSent + 1
    /\ UNCHANGED <<analysisController, isAnalyzing, analysisResults,
                   analysisError, analysisProgress>>
    /\ UNCHANGED <<hookVariant, cameraVars, recordingVars>>
    /\ UNCHANGED <<routeVars, engineVars, flashVars, assessVars, cleanupDep>>

\* fetch rejects: the service cannot be reached.  The catch block runs; the
\* request is not sent again.
UploadReject ==
    /\ \E i \in 1..Len(runs) :
          /\ runs[i].pc = "upload"
          /\ EndRun(i, "Failed to fetch", FALSE, NullResults)
    /\ UNCHANGED <<routeVars, engineVars, flashVars, assessVars, cleanupDep>>

\* The abort timer of a run fires (videorec.tsx 359, part_007 239 and
\* 634-637): controller.abort().  A timer is cleared only when the response
\* arrives, so it also fires after a run that ended in the catch block.
TimeoutFire ==
    /\ \E i \in 1..Len(runs) :
          /\ runs[i].timer = "armed"
          /\ runs' = [runs EXCEPT ![i] =
                        IF @.pc = "upload"
                        THEN [@ EXCEPT !.timer = "fired",
                                       !.pc = "aborting",
                                       !.abortedBy = "timeout"]
                        ELSE [@ EXCEPT !.timer = "fired"]]
    /\ UNCHANGED <<postsSent, analysisController, isAnalyzing, analysisResults,
                   analysisError, analysisProgress>>
    /\ UNCHANGED <<hookVariant, cameraVars, recordingVars>>
    /\ UNCHANGED <<routeVars, engineVars, flashVars, assessVars, cleanupDep>>

\* The aborted fetch rejects with an AbortError and the catch block runs.
AbortDelivered ==
    /\ \E i \in 1..Len(runs) :
          /\ runs[i].pc = "aborting"
          /\ EndRun(i, "AbortError", FALSE, NullResults)
    /\ UNCHANGED <<routeVars, engineVars, flashVars, assessVars, cleanupDep>>

\* part_006 38-59: the mock hook's 3 s timer fires.
MockTimerFires ==
    /\ \E i \in 1..Len(runs) :
          /\ runs[i].pc = "mock"
          /\ runs' = [runs EXCEPT ![i] =
                        [@ EXCEPT !.pc = "done", !.call = 0, !.stored = "mock"]]
    /\ analysisResults' = MockResults
    /\ isAnalyzing' = FALSE
    /\ UNCHANGED <<postsSent, analysisController, analysisError, analysisProgress>>
    /\ UNCHANGED <<hookVariant, cameraVars, recordingVars>>
    /\ UNCHANGED <<routeVars, engineVars, flashVars, assessVars, cleanupDep>>

----------------------------------------------------------------------------
(* Camera and recorder *)

\* videorec.tsx 176-184, part_007 134-140 and 510-520, part_006 24: the
\* message for a rejected getUserMedia.
CameraErrorMessage(errorName) ==
    CASE hookVariant = "mock" ->
           "Camera access denied. Please allow camera access and try again."
      [] hookVariant # "mock" /\ errorName = "NotAllowedError" ->
           "Camera permission denied."
      [] hookVariant # "mock" /\ errorName = "NotFoundError" ->
           "No camera found on this device."
      [] OTHER -> "Camera is already in use by another app."

CameraOutcomes == {"granted", "NotAllowedError", "NotFoundError"}

\* cleanupResources of the render version, part_007 382-422.  c is the value
\* of isRecording in the closure the caller holds.
cleanupResources(c) ==
    LET stops == recorder.ref /\ c /\ recorder.state = "recording"
    IN /\ liveStreams' = liveStreams \ {streamRef}
       /\ streamRef' = 0
       /\ videoStream' = IF streamRef # 0 THEN 0 ELSE videoStream
       /\ recorder' = [recorder EXCEPT !.ref = FALSE,
                                       !.state = IF stops THEN "inactive" ELSE @]
       /\ stopEvent' = IF stops THEN TRUE ELSE stopEvent
       /\ runs' = IF analysisController = 0 THEN runs
                  ELSE [runs EXCEPT ![analysisController] =
                          IF @.pc = "upload"
                          THEN [@ EXCEPT !.pc = "aborting", !.abortedBy = "cleanup"]
                          ELSE @]
       /\ analysisController' = 0
       /\ SetIsRecording(FALSE)
       /\ isAnalyzing' = FALSE
       /\ recordedChunks' = 0

\* requestCameraPermission up to its await: videorec.tsx 147-166.
requestCameraPermission ==
    /\ hookVariant = "mobile"
    /\ cameraRequest = "none"
    /\ permissionError' = "null"
    /\ cameraRequest' = "permission"
    /\ UNCHANGED <<hookVariant, hasPermission, videoStream, streamRef,
                   liveStreams, streamsOpened>>
    /\ UNCHANGED <<recordingVars, analysisVars>>

\* startRecording up to its first await: videorec.tsx 190-250, part_007
\* 67-78 and 424-436, part_006 15-17.  The mobile version records at once
\* when it holds a stream.
startRecording(c) ==
    /\ cameraRequest = "none"
    /\ recorder.state = "inactive"
    /\ IF hookVariant = "mobile" /\ streamRef # 0
       THEN /\ ~stopEvent
            /\ permissionError' = "null"
            /\ recordedChunks' = 0
            /\ recorder' = NewRecorder
            /\ UNCHANGED <<hookVariant, hasPermission, videoStream, streamRef,
                           liveStreams, streamsOpened, cameraRequest>>
            /\ UNCHANGED <<isRecording, stopEvent, lastRecordedVideo,
                           blobsCreated, seenIsRecording, stopPromise>>
            /\ UNCHANGED analysisVars
       ELSE IF hookVariant = "render"
       THEN /\ permissionError' = "null"
            /\ cleanupResources(c)
            /\ cameraRequest' = "start"
            /\ UNCHANGED <<hookVariant, hasPermission, streamsOpened,
                           lastRecordedVideo, blobsCreated, stopPromise,
                           postsSent, analysisResults, analysisError,
                           analysisProgress>>
       ELSE /\ permissionError' = IF hookVariant = "mock" THEN permissionError
                                  ELSE "null"
            /\ cameraRequest' = "start"
            /\ UNCHANGED <<hookVariant, hasPermission, videoStream, streamRef,
                           liveStreams, streamsOpened>>
            /\ UNCHANGED <<recordingVars, analysisVars>>

\* getUserMedia settles, and the code awaiting it runs on: videorec.tsx
\* 168-187 and 198-256, part_007 87-143 and 446-524, part_006 18-27.
CameraAnswer ==
    /\ cameraRequest # "none"
    /\ \E outcome \in CameraOutcomes, c \in seenIsRecording :
          LET granted == outcome = "granted"
              id == streamsOpened + 1
              starting == cameraRequest = "start"
          IN /\ granted => streamsOpened < MaxStreams
             /\ (granted /\ starting) => ~stopEvent
             /\ cameraRequest' = "none"
             /\ IF granted
                THEN /\ hasPermission' = TRUE
                     /\ streamsOpened' = id
                     /\ liveStreams' = liveStreams \cup {id}
                     /\ videoStream' = id
                     /\ streamRef' = IF hookVariant = "mock" THEN streamRef ELSE id
                     /\ permissionError' = IF hookVariant = "mock" THEN "null"
                                           ELSE permissionError
                     /\ IF ~starting
                        THEN UNCHANGED recordingVars
                        ELSE IF hookVariant = "mock"
                        THEN /\ SetIsRecording(TRUE)
                             /\ UNCHANGED <<recorder, stopEvent, recordedChunks,
                                            lastRecordedVideo, blobsCreated,
                                            stopPromise>>
                        ELSE /\ recordedChunks' = 0
                             /\ recorder' = NewRecorder
                             /\ IF hookVariant = "deploy"
                                THEN SetIsRecording(TRUE)
                                ELSE UNCHANGED <<isRecording, seenIsRecording>>
                             /\ UNCHANGED <<stopEvent, lastRecordedVideo,
                                            blobsCreated, stopPromise>>
                     /\ UNCHANGED analysisVars
                ELSE /\ hasPermission' = FALSE
                     /\ UNCHANGED streamsOpened
                     /\ IF hookVariant = "render"
                        THEN /\ permissionError' = CameraErrorMessage(outcome)
                             /\ cleanupResources(c)
                             /\ UNCHANGED <<lastRecordedVideo, blobsCreated,
                                            stopPromise, postsSent, analysisResults,
                                            analysisError, analysisProgress>>
                        ELSE /\ IF hookVariant = "mobile" /\ starting
                                THEN /\ permissionError' =
                                          "Recording failed: Failed to get camera stream"
                                     /\ SetIsRecording(FALSE)
                                ELSE /\ permissionError' = CameraErrorMessage(outcome)
                                     /\ UNCHANGED <<isRecording, seenIsRecording>>
                             /\ UNCHANGED <<videoStream, streamRef, liveStreams>>
                             /\ UNCHANGED <<recorder, stopEvent, recordedChunks,
                                            lastRecordedVideo, blobsCreated,
                                            stopPromise>>
                             /\ UNCHANGED analysisVars
    /\ UNCHANGED hookVariant
    /\ UNCHANGED <<routeVars, engineVars, flashVars, assessVars, cleanupDep>>

\* The 'start' event of the recorder: videorec.tsx 239-242, part_007 492-497.
RecorderStarted ==
    /\ recorder.startQueued
    /\ recorder' = [recorder EXCEPT !.startQueued = FALSE]
    /\ SetIsRecording(TRUE)
    /\ UNCHANGED <<stopEvent, recordedChunks, lastRecordedVideo, blobsCreated,
                   stopPromise>>
    /\ UNCHANGED <<hookVariant, cameraVars, analysisVars>>
    /\ UNCHANGED <<routeVars, engineVars, flashVars, assessVars, cleanupDep>>

\* A 'dataavailable' event with data: videorec.tsx 232-237.  The last one of
\* a recording is delivered between stop() and the 'stop' event.
DataAvailable ==
    /\ IF recorder.state = "recording" THEN TRUE ELSE stopEvent
    /\ recordedChunks < MaxChunks
    /\ recordedChunks' = recordedChunks + 1
    /\ UNCHANGED <<isRecording, recorder, stopEvent, lastRecordedVideo,
                   blobsCreated, seenIsRecording, stopPromise>>
    /\ UNCHANGED <<hookVariant, cameraVars, analysisVars>>
    /\ UNCHANGED <<routeVars, engineVars, flashVars, assessVars, cleanupDep>>

\* stopRecording up to the return of its promise: videorec.tsx 259-323,
\* part_007 146-222 and 527-617, part_006 30-62.  c is the value of
\* isRecording in the closure the caller holds; stop() on an inactive
\* recorder throws or returns, depending on the browser.
stopRecording(c, throws) ==
    LET call == stopPromise.call + 1
        promise(state) == [call |-> call, state |-> state]
        refuses == IF ~recorder.ref THEN TRUE
                   ELSE IF hookVariant = "render"
                        THEN recorder.state # "recording"
                        ELSE ~c
    IN
    /\ stopPromise.call < MaxStopCalls
    /\ IF hookVariant = "mock"
       THEN /\ Len(runs) < MaxRuns
            /\ SetIsRecording(FALSE)
            /\ liveStreams' = liveStreams \ {videoStream}
            /\ analyzeVideoWithAPI("stop", call, 0)
            /\ stopPromise' = promise("file")
            /\ UNCHANGED <<hookVariant, hasPermission, permissionError,
                           videoStream, streamRef, streamsOpened, cameraRequest>>
            /\ UNCHANGED <<recorder, stopEvent, recordedChunks,
                           lastRecordedVideo, blobsCreated>>
       ELSE /\ IF refuses
               THEN /\ stopPromise' = promise("null")
                    /\ UNCHANGED <<recorder, stopEvent, isRecording,
                                   seenIsRecording, videoStream>>
               ELSE IF recorder.state = "recording"
               THEN /\ recorder' = [recorder EXCEPT !.onstop = call,
                                                    !.state = "inactive"]
                    /\ stopEvent' = TRUE
                    /\ stopPromise' = promise("pending")
                    /\ UNCHANGED <<isRecording, seenIsRecording, videoStream>>
               ELSE /\ recorder' = [recorder EXCEPT !.onstop = call]
                    /\ stopPromise' = promise(IF throws THEN "null" ELSE "pending")
                    /\ UNCHANGED <<stopEvent, isRecording, seenIsRecording,
                                   videoStream>>
            /\ UNCHANGED <<hookVariant, hasPermission, permissionError,
                           streamRef, liveStreams, streamsOpened, cameraRequest>>
            /\ UNCHANGED <<recordedChunks, lastRecordedVideo, blobsCreated>>
            /\ UNCHANGED analysisVars

\* The 'stop' event of the recorder runs the onstop handler installed last:
\* videorec.tsx 244-247 and 269-312, part_007 156-211 and 549-605.
RecorderStopEvent ==
    /\ stopEvent
    /\ stopEvent' = FALSE
    /\ LET call == recorder.onstop
           resolved(state) ==
               IF stopPromise.call = call /\ stopPromise.state = "pending"
               THEN [stopPromise EXCEPT !.state = state]
               ELSE stopPromise
           blob == blobsCreated + 1
       IN IF call = NoHandler
          THEN UNCHANGED <<cameraVars, analysisVars, isRecording, recorder,
                           recordedChunks, lastRecordedVideo, blobsCreated,
                           seenIsRecording, stopPromise>>
          ELSE IF call = DefaultHandler
          THEN /\ SetIsRecording(FALSE)
               /\ UNCHANGED <<cameraVars, analysisVars, recorder, recordedChunks,
                              lastRecordedVideo, blobsCreated, stopPromise>>
          ELSE IF recordedChunks = 0
          THEN /\ stopPromise' = resolved("null")
               /\ IF hookVariant = "render"
                  THEN /\ SetIsRecording(FALSE)
                       /\ videoStream' = 0
                  ELSE UNCHANGED <<isRecording, seenIsRecording, videoStream>>
               /\ UNCHANGED <<hasPermission, permissionError, streamRef,
                              liveStreams, streamsOpened, cameraRequest>>
               /\ UNCHANGED <<analysisVars, recorder, recordedChunks,
                              lastRecordedVideo, blobsCreated>>
          ELSE /\ Len(runs) < MaxRuns
               /\ blobsCreated' = blob
               /\ lastRecordedVideo' = IF hookVariant = "mobile" THEN blob
                                       ELSE lastRecordedVideo
               /\ IF hookVariant = "render"
                  THEN /\ liveStreams' = liveStreams \ {streamRef}
                       /\ streamRef' = 0
                       /\ SetIsRecording(FALSE)
                       /\ videoStream' = 0
                  ELSE UNCHANGED <<liveStreams, streamRef, isRecording,
                                   seenIsRecording, videoStream>>
               /\ analyzeVideoWithAPI("stop", call, blob)
               /\ UNCHANGED <<hasPermission, permissionError, streamsOpened,
                              cameraRequest>>
               /\ UNCHANGED <<recorder, recordedChunks, stopPromise>>
    /\ UNCHANGED hookVariant
    /\ UNCHANGED <<routeVars, engineVars, flashVars, assessVars, cleanupDep>>

\* retryAnalysis: videorec.tsx 326-332.
retryAnalysis ==
    /\ hookVariant = "mobile"
    /\ lastRecordedVideo # 0
    /\ Len(runs) < MaxRuns
    /\ analyzeVideoWithAPI("retry", 0, lastRecordedVideo)
    /\ UNCHANGED <<hookVariant, cameraVars, recordingVars>>

\* setAnalysisResults(null), the only value a caller passes.
setAnalysisResults ==
    /\ analysisResults' = NullResults
    /\ UNCHANGED <<runs, postsSent, analysisController, isAnalyzing,
                   analysisError, analysisProgress>>
    /\ UNCHANGED <<hookVariant, cameraVars, recordingVars>>

\* cleanupStreams: videorec.tsx 84-136.  stream is the videoStream of the
\* render that made the function; results is what analysisResults holds
\* once the handler that called it has run: resetAssessment follows it with
\* setAnalysisResults(null) in the same batch of state updates.
cleanupStreamsOf(stream, results) ==
    LET stops == recorder.ref /\ recorder.state # "inactive"
    IN /\ hookVariant = "mobile"
       /\ liveStreams' = liveStreams \ {streamRef, stream}
       /\ streamRef' = 0
       /\ videoStream' = 0
       /\ recorder' = [recorder EXCEPT !.ref = FALSE, !.state = "inactive"]
       /\ stopEvent' = IF stops THEN TRUE ELSE stopEvent
       /\ SetIsRecording(FALSE)
       /\ analysisProgress' = ""
       /\ UNCHANGED <<hookVariant, hasPermission, permissionError,
                      streamsOpened, cameraRequest>>
       /\ UNCHANGED <<recordedChunks, lastRecordedVideo, blobsCreated,
                      stopPromise>>
       /\ analysisResults' = results
       /\ UNCHANGED <<runs, postsSent, analysisController, isAnalyzing,
                      analysisError>>

cleanupStreamsThen(results) == cleanupStreamsOf(cleanupDep, results)

cleanupStreams == cleanupStreamsThen(analysisResults)

\* The effect of the hook, videorec.tsx 138-144: its cleanup calls
\* cleanupStreams and its dependency is cleanupStreams, a useCallback on
\* videoStream (84, 136).  A render that finds videoStream changed runs the
\* cleanup of the effect it replaces, with the cleanupStreams of the
\* render before, and mounts the effect anew.  No render follows the
\* unmounting of the hook.
HookCleanupEffect ==
    /\ hookVariant = "mobile"
    /\ IF assessVariant = "none" THEN TRUE ELSE phase # "left"
    /\ cleanupDep # videoStream
    /\ cleanupDep' = videoStream
    /\ cleanupStreams
    /\ UNCHANGED <<routeVars, engineVars, flashVars, assessVars>>

----------------------------------------------------------------------------
(* The hook under a caller that starts, stops, retries and cleans up at    *)
(* any time.  requestCameraPermission and setAnalysisResults are invoked   *)
(* by the assessment component.                                            *)

CallStartRecording ==
    /\ \E c \in seenIsRecording : startRecording(c)
    /\ UNCHANGED <<routeVars, engineVars, flashVars, assessVars, cleanupDep>>

CallStopRecording ==
    /\ \E c \in seenIsRecording, throws \in BOOLEAN : stopRecording(c, throws)
    /\ UNCHANGED <<routeVars, engineVars, flashVars, assessVars, cleanupDep>>

CallRetryAnalysis ==
    /\ retryAnalysis
    /\ UNCHANGED <<routeVars, engineVars, flashVars, assessVars, cleanupDep>>

CallCleanupStreams ==
    /\ cleanupStreams
    /\ UNCHANGED <<routeVars, engineVars, flashVars, assessVars, cleanupDep>>

CallCleanupResources ==
    /\ hookVariant = "render"
    /\ \E c \in seenIsRecording : cleanupResources(c)
    /\ UNCHANGED <<hookVariant, hasPermission, permissionError, streamsOpened,
                   cameraRequest, lastRecordedVideo, blobsCreated, stopPromise,
                   postsSent, analysisResults, analysisError, analysisProgress>>
    /\ UNCHANGED <<routeVars, engineVars, flashVars, assessVars, cleanupDep>>

----------------------------------------------------------------------------
(* The EyeTrackingAssessment component, in its three versions, driving the *)
(* hook it mounts.  The browser stays online.                              *)

AssessVariants == {"v1", "v2", "v3"}

\* v1 calls requestCameraPermission and cleanupStreams, which the mobile
\* hook alone exports: EyeTrackingAssessment.tsx 28-44, 712-723, 1107-1118.
HooksOf(variant) ==
    IF variant = "v1" THEN {"mobile"} ELSE {"mobile", "deploy", "render"}

IdleAwait == [pc |-> "idle", ok |-> FALSE, c |-> FALSE]

IdleAssessment == [pc |-> "idle", c |-> FALSE, call |-> 0]

\* The component right after mounting: 15-22, 701-709, 1097-1106.
AssessMounted ==
    /\ phase = "intro"
    /\ countdown = 3
    /\ consentChecked = FALSE
    /\ savedFilename = "null"
    /\ permissionAwait = IdleAwait
    /\ assessment = IdleAssessment

\* No component is mounted.
AssessAbsent ==
    /\ assessVariant = "none"
    /\ phase = "left"
    /\ countdown = 3
    /\ consentChecked = FALSE
    /\ savedFilename = "null"
    /\ permissionAwait = IdleAwait
    /\ assessment = IdleAssessment

\* setPhase: a state update of an unmounted component is dropped.
SetPhase(p) == phase' = IF phase = "left" THEN "left" ELSE p

\* The buttons whose handler is setPhase(target) and nothing else, as
\* <<screen, target>>.
Buttons(variant) ==
    IF variant = "v1"
    THEN {<<"intro", "consent">>, <<"consent", "intro">>,
          <<"consent", "positioning">>, <<"positioning", "consent">>,
          <<"permission", "positioning">>}
    ELSE IF variant = "v2"
    THEN {<<"intro", "consent">>, <<"consent", "intro">>,
          <<"consent", "positioning">>, <<"positioning", "consent">>}
    ELSE {<<"intro", "consent">>, <<"intro", "vision-screening">>,
          <<"vision-screening", "intro">>,
          <<"vision-screening", "flashlight-test">>,
          <<"vision-screening", "consent">>,
          <<"flashlight-test", "vision-screening">>,
          <<"consent", "intro">>, <<"consent", "positioning">>,
          <<"positioning", "consent">>, <<"positioning", "countdown">>,
          <<"permission", "intro">>}

\* A consent screen whose Continue button is never disabled.
ButtonEnabledNoConsent(b) ==
    /\ phase = b[1]
    /\ b[1] = "permission" => permissionError # "null"

\* A button is shown on its screen; Continue on the consent screen is
\* disabled until the box is ticked (363-364, 869-870, 1456-1457) and the
\* permission screen has buttons only while it shows an error (440, 914,
\* 1484).
ButtonEnabled(b) ==
    /\ phase = b[1]
    /\ b = <<"consent", "positioning">> => consentChecked
    /\ b[1] = "permission" => permissionError # "null"

\* The user presses a button that only changes the screen.
PressButton ==
    /\ \E b \in Buttons(assessVariant) :
          /\ ButtonEnabled(b)
          /\ phase' = b[2]
    /\ UNCHANGED <<assessVariant, countdown, consentChecked, savedFilename,
                   permissionAwait, assessment>>
    /\ UNCHANGED <<routeVars, engineVars, flashVars, hookVars>>

\* The consent checkbox: 352, 862, 1445.
ToggleConsent ==
    /\ phase = "consent"
    /\ consentChecked' = ~consentChecked
    /\ UNCHANGED <<assessVariant, phase, countdown, savedFilename,
                   permissionAwait, assessment>>
    /\ UNCHANGED <<routeVars, engineVars, flashVars, hookVars>>

\* requestPermission up to its first await: 85-88 in v1, 726-729 in v2.  v3
\* shows the function on its permission screen alone, which no button
\* leads to.  The function tests hasPermission and permissionError as the
\* render of the click saw them.
requestPermission ==
    /\ assessVariant \in {"v1", "v2"}
    /\ IF phase = "permission" THEN permissionError # "null"
                               ELSE phase = "positioning"
    /\ permissionAwait.pc = "idle"
    /\ phase' = "permission"
    /\ IF assessVariant = "v1"
       THEN /\ requestCameraPermission
            /\ permissionAwait' =
                  [pc |-> "camera",
                   ok |-> hasPermission /\ permissionError = "null",
                   c |-> isRecording]
       ELSE /\ startRecording(isRecording)
            /\ permissionAwait' =
                  [pc |-> "start", ok |-> hasPermission, c |-> isRecording]
    /\ UNCHANGED <<assessVariant, countdown, consentChecked, savedFilename,
                   assessment>>
    /\ UNCHANGED <<routeVars, engineVars, flashVars, cleanupDep>>

\* The promise of requestCameraPermission or of startRecording is settled:
\* the hook is past its getUserMedia call and, in the render version, past
\* the 100 ms wait after recorder.start().
StartSettled ==
    /\ cameraRequest = "none"
    /\ ~(hookVariant = "render" /\ recorder.startQueued)

\* The promise of the call-th stopRecording() is resolved.
StopSettled(call) ==
    /\ stopPromise.call = call
    /\ stopPromise.state \in {"null", "file"}

\* requestPermission after its awaits: 89-93 in v1, 730-733 in v2.  The 500
\* ms between the test and setPhase('countdown') are not modelled.
PermissionContinues ==
    /\ permissionAwait.pc \in {"camera", "start"}
    /\ StartSettled
    /\ IF permissionAwait.ok /\ permissionAwait.pc = "start"
       THEN /\ \E throws \in BOOLEAN : stopRecording(permissionAwait.c, throws)
            /\ permissionAwait' = [permissionAwait EXCEPT !.pc = "stop"]
            /\ UNCHANGED phase
       ELSE /\ permissionAwait' = IdleAwait
            /\ SetPhase(IF permissionAwait.ok THEN "countdown" ELSE phase)
            /\ UNCHANGED hookVars
    /\ UNCHANGED <<assessVariant, countdown, consentChecked, savedFilename,
                   assessment>>
    /\ UNCHANGED <<routeVars, engineVars, flashVars, cleanupDep>>

\* The countdown effect while the count is positive: 106-108, 753-755,
\* 1169-1171.
CountdownTick ==
    /\ phase = "countdown"
    /\ countdown > 0
    /\ countdown' = countdown - 1
    /\ UNCHANGED <<assessVariant, phase, consentChecked, savedFilename,
                   permissionAwait, assessment>>
    /\ UNCHANGED <<routeVars, engineVars, flashVars, hookVars>>

\* The countdown effect at zero, and startAssessment up to its await:
\* 109-118, 756-765, 1172-1192.  The effect holds the functions of the
\* render it runs after.
startAssessment ==
    /\ phase = "countdown"
    /\ countdown = 0
    /\ assessment.pc = "idle"
    /\ phase' = "assessment"
    /\ startRecording(isRecording)
    /\ assessment' = [pc |-> "starting", c |-> isRecording, call |-> 0]
    /\ UNCHANGED <<assessVariant, countdown, consentChecked, savedFilename,
                   permissionAwait>>
    /\ UNCHANGED <<routeVars, engineVars, flashVars, cleanupDep>>

\* startRecording() has returned: the 20 s of the exercise begin, 120-147,
\* 767-792, 1194-1217.
AssessmentRuns ==
    /\ assessment.pc = "starting"
    /\ StartSettled
    /\ assessment' = [assessment EXCEPT !.pc = "running"]
    /\ UNCHANGED <<assessVariant, phase, countdown, consentChecked,
                   savedFilename, permissionAwait>>
    /\ UNCHANGED <<routeVars, engineVars, flashVars, hookVars>>

\* After 20 s: completeAssessment in v1 and v2 (142-144 and 151-153,
\* 787-789 and 796-798), the timer in v3 (1218-1222), each up to its await
\* of stopRecording().
AssessmentTimeUp ==
    /\ assessment.pc = "running"
    /\ \E throws \in BOOLEAN : stopRecording(assessment.c, throws)
    /\ assessment' = [assessment EXCEPT !.pc = "stopping",
                                        !.call = stopPromise.call + 1]
    /\ UNCHANGED <<assessVariant, phase, countdown, consentChecked,
                   savedFilename, permissionAwait>>
    /\ UNCHANGED <<routeVars, engineVars, flashVars, cleanupDep>>

\* stopRecording() has returned the filename or null: 154-156, 799-806,
\* 1223-1228.
AssessmentStopped ==
    /\ assessment.pc = "stopping"
    /\ StopSettled(assessment.call)
    /\ savedFilename' = IF phase = "left" THEN savedFilename
                        ELSE IF stopPromise.state = "file" THEN "file"
                        ELSE "null"
    /\ SetPhase(IF assessVariant = "v3" THEN "processing" ELSE "complete")
    /\ assessment' = IdleAssessment
    /\ UNCHANGED <<assessVariant, countdown, consentChecked, permissionAwait>>
    /\ UNCHANGED <<routeVars, engineVars, flashVars, hookVars>>

\* The effect that leaves the processing screen: 1179-1187.
ProcessingDone ==
    /\ assessVariant = "v3"
    /\ phase = "processing"
    /\ ~isAnalyzing
    /\ IF analysisResults # NullResults THEN TRUE ELSE savedFilename # "null"
    /\ phase' = "complete"
    /\ UNCHANGED <<assessVariant, countdown, consentChecked, savedFilename,
                   permissionAwait, assessment>>
    /\ UNCHANGED <<routeVars, engineVars, flashVars, hookVars>>

\* The results screen of v1 renders the Retry Analysis button inside
\* AnalysisProgress, which it renders while isAnalyzing is true, and there
\* only when analysisError is set: 612-615 and 231-243.  The later versions
\* have no such button.
RetryAnalysisShown ==
    /\ isAnalyzing
    /\ analysisError # "null"

\* New Assessment on the results screen: resetAssessment 161-180 in v1, the
\* inline handlers 1044-1052 and 1765-1776.
resetAssessment ==
    /\ phase = "complete"
    /\ phase' = "intro"
    /\ countdown' = 3
    /\ savedFilename' = "null"
    /\ consentChecked' = FALSE
    /\ IF assessVariant = "v1" THEN cleanupStreamsThen(NullResults)
                               ELSE setAnalysisResults
    /\ UNCHANGED <<assessVariant, permissionAwait, assessment>>
    /\ UNCHANGED <<routeVars, engineVars, flashVars, cleanupDep>>

\* The user leaves the component from the first or the last screen:
\* handleBack 74-82 and handleFinalDone 183-188 in v1, onBack 813, 1059,
\* 1266, 1314, 1783.  The component unmounts, and with it the hook, whose
\* effect cleanup calls cleanupStreams (videorec.tsx 138-144).
Leave ==
    /\ phase \in {"intro", "complete"}
    /\ phase' = "left"
    /\ IF hookVariant = "mobile"
       THEN cleanupStreams
       ELSE UNCHANGED hookVars
    /\ UNCHANGED <<assessVariant, countdown, consentChecked, savedFilename,
                   permissionAwait, assessment>>
    /\ UNCHANGED <<routeVars, engineVars, flashVars, cleanupDep>>

----------------------------------------------------------------------------
(* FlashlightTest component.  Three versions of it are in the tree:
   "a" part_002 14-270 (part_003 14-256 differs in sendToAPI alone),
   "c" part_004 516-1031,
   "d" src/app/components/FlashLightTest.tsx 190-657 (part_004 77-500
       differs in sendToAPI alone). *)

FlashVariants == {"a", "c", "d"}

NoAnalysis == [photo |-> 0, fallback |-> FALSE]

IdleCapture == [pc |-> "idle", track |-> 0, video |-> "none", photo |-> 0]

\* The screens that render a <video ref={videoRef}>: part_002 157-203,
\* part_004 819-910, FlashLightTest.tsx 572-640.
ShowsVideo(variant, p) ==
    IF variant = "c" THEN p \in {"instructions", "countdown"}
                     ELSE p \in {"ready", "countdown"}

\* videoRef.current after the render that follows setPhase(q): null, the
\* element it was, or a new element without srcObject.  Version d has one
\* element for 'ready' and 'countdown'; the other versions render one
\* element per screen, so that React unmounts one and mounts another.
VideoAfter(q) ==
    IF ~ShowsVideo(flashVariant, q) THEN "none"
    ELSE IF ~ShowsVideo(flashVariant, flPhase) THEN "blank"
    ELSE IF flashVariant = "d" THEN flVideo
    ELSE IF flPhase = q THEN flVideo
    ELSE "blank"

\* A state update of an unmounted component is dropped.
Upd(current, new) == IF flPhase = "left" THEN current ELSE new

\* setPhase(q) and the render that follows.
SetFlPhase(q) ==
    /\ flPhase' = Upd(flPhase, q)
    /\ flVideo' = Upd(flVideo, VideoAfter(q))

\* track.stop() on every track of the streams in ids; a stopped track no
\* longer drives the torch.
StopTracks(ids) ==
    /\ flTracks' = flTracks \ ids
    /\ flTorch' = IF flTorch \in ids THEN 0 ELSE flTorch

\* The component right after mounting: part_002 15-51, part_004 517-528,
\* FlashLightTest.tsx 191-316.  Versions a and d call getUserMedia from
\* their mount effect.
FlashMounted ==
    /\ flPhase = IF flashVariant = "c" THEN "intro" ELSE "ready"
    /\ flVideo = IF flashVariant = "c" THEN "none" ELSE "blank"
    /\ flCountdown = 5
    /\ flError = FALSE
    /\ flCameraReady = FALSE
    /\ flCamera = IF flashVariant = "c" THEN "none" ELSE "first"
    /\ flStreamRef = 0
    /\ flTracks = {}
    /\ flOpened = 0
    /\ flTorch = 0
    /\ flCapture = IdleCapture
    /\ flCapturedPhoto = 0
    /\ flPhotos = 0
    /\ flShowResult = FALSE
    /\ flIsAnalyzing = FALSE
    /\ flAnalysisResult = NoAnalysis
    /\ flSends = {}

\* No flashlight component is mounted.
FlashAbsent ==
    /\ flashVariant = "none"
    /\ flTorchCap = FALSE
    /\ flPhase = "left"
    /\ flVideo = "none"
    /\ flCountdown = 5
    /\ flError = FALSE
    /\ flCameraReady = FALSE
    /\ flCamera = "none"
    /\ flStreamRef = 0
    /\ flTracks = {}
    /\ flOpened = 0
    /\ flTorch = 0
    /\ flCapture = IdleCapture
    /\ flCapturedPhoto = 0
    /\ flPhotos = 0
    /\ flShowResult = FALSE
    /\ flIsAnalyzing = FALSE
    /\ flAnalysisResult = NoAnalysis
    /\ flSends = {}

\* requestCameraPermission of version c up to its await: part_004 531-541.
\* The button is on the intro screen and, once an error is shown, on the
\* permission screen (762, 790).
FlRequestCameraPermission ==
    /\ flashVariant = "c"
    /\ IF flPhase = "permission" THEN flError ELSE flPhase = "intro"
    /\ flCamera = "none"
    /\ SetFlPhase("permission")
    /\ flError' = FALSE
    /\ flCamera' = "first"
    /\ UNCHANGED <<flashVariant, flTorchCap, flCountdown, flCameraReady,
                   flStreamRef, flTracks, flOpened, flTorch, flShot, flApi>>
    /\ UNCHANGED <<routeVars, engineVars, hookVars, assessVars>>

\* getUserMedia settles: part_002 25-43, part_004 537-578,
\* FlashLightTest.tsx 232-302.  The continuation runs whether or not the
\* component is still mounted; it stores the stream in streamRef and hands
\* it to the <video> element, if one is mounted.  Version d retries with
\* looser constraints after any failure, version c after an
\* OverconstrainedError.
FlCameraAnswer ==
    /\ flCamera # "none"
    /\ \E outcome \in {"granted", "rejected", "overconstrained"} :
          IF outcome = "granted"
          THEN /\ flOpened < MaxStreams
               /\ flOpened' = flOpened + 1
               /\ flStreamRef' = flOpened + 1
               /\ flTracks' = flTracks \cup {flOpened + 1}
               /\ flCamera' = "none"
               /\ IF flashVariant = "c"
                  THEN SetFlPhase("instructions")
                  ELSE /\ flVideo' = IF flVideo = "none" THEN "none" ELSE "stream"
                       /\ UNCHANGED flPhase
               /\ UNCHANGED flError
          ELSE /\ UNCHANGED <<flOpened, flStreamRef, flTracks>>
               /\ IF /\ flCamera = "first"
                     /\ IF flashVariant = "c" THEN outcome = "overconstrained"
                                              ELSE flashVariant = "d"
                  THEN /\ flCamera' = "fallback"
                       /\ UNCHANGED <<flPhase, flVideo, flError>>
                  ELSE /\ flCamera' = "none"
                       /\ flError' = Upd(flError, flashVariant # "a")
                       /\ IF flashVariant = "d" THEN SetFlPhase("error")
                                                ELSE UNCHANGED <<flPhase, flVideo>>
    /\ UNCHANGED <<flashVariant, flTorchCap, flCountdown, flCameraReady,
                   flTorch, flShot, flApi>>
    /\ UNCHANGED <<routeVars, engineVars, hookVars, assessVars>>

\* The <video> element that shows a live stream gets its metadata:
\* videoWidth and videoHeight become positive, and in version d the
\* listeners of FlashLightTest.tsx 256-270 call setCameraReady(true).
FlVideoLoaded ==
    /\ flVideo = "stream"
    /\ flStreamRef \in flTracks
    /\ flVideo' = "loaded"
    /\ flCameraReady' = Upd(flCameraReady, flashVariant = "d")
    /\ UNCHANGED <<flashVariant, flTorchCap, flPhase, flCountdown, flError,
                   flCam, flShot, flApi>>
    /\ UNCHANGED <<routeVars, engineVars, hookVars, assessVars>>

\* The 'error' event of the <video> element: FlashLightTest.tsx 264-270.
FlVideoError ==
    /\ flashVariant = "d"
    /\ flVideo \in {"stream", "loaded"}
    /\ flError' = TRUE
    /\ SetFlPhase("error")
    /\ UNCHANGED <<flashVariant, flTorchCap, flCountdown, flCameraReady,
                   flCam, flShot, flApi>>
    /\ UNCHANGED <<routeVars, engineVars, hookVars, assessVars>>

\* The button of the instructions screen of version c that leads back:
\* part_004 824.
FlInstructionsBack ==
    /\ flashVariant = "c"
    /\ flPhase = "instructions"
    /\ SetFlPhase("intro")
    /\ UNCHANGED <<flashVariant, flTorchCap, flCountdown, flError,
                   flCameraReady, flCam, flShot, flApi>>
    /\ UNCHANGED <<routeVars, engineVars, hookVars, assessVars>>

\* Mutant of FlStartCountdown: the count is not set back to 5.
FlStartCountdownKeepsCount ==
    /\ flPhase = IF flashVariant = "c" THEN "instructions" ELSE "ready"
    /\ flashVariant = "d" => flCameraReady
    /\ flPhotos < MaxPhotos
    /\ SetFlPhase("countdown")
    /\ UNCHANGED <<flashVariant, flTorchCap, flCountdown, flError,
                   flCameraReady, flCam, flShot, flApi>>
    /\ UNCHANGED <<routeVars, engineVars, hookVars, assessVars>>

\* startCountdown: part_002 54-57, part_004 584-587, FlashLightTest.tsx
\* 319-334.  Version d shows the button once cameraReady is true and
\* refuses while the video has no dimensions.
FlStartCountdown ==
    /\ flPhase = IF flashVariant = "c" THEN "instructions" ELSE "ready"
    /\ flashVariant = "d" => flCameraReady
    /\ flPhotos < MaxPhotos
    /\ IF flashVariant = "d" /\ flVideo # "loaded"
       THEN /\ flError' = TRUE
            /\ UNCHANGED <<flPhase, flVideo, flCountdown>>
       ELSE /\ SetFlPhase("countdown")
            /\ flCountdown' = 5
            /\ UNCHANGED flError
    /\ UNCHANGED <<flashVariant, flTorchCap, flCameraReady, flCam, flShot,
                   flApi>>
    /\ UNCHANGED <<routeVars, engineVars, hookVars, assessVars>>

\* The countdown effect while the count is positive: part_002 60-63,
\* part_004 590-593, FlashLightTest.tsx 337-340.
FlCountdownTick ==
    /\ flPhase = "countdown"
    /\ flCountdown > 0
    /\ flCountdown' = flCountdown - 1
    /\ UNCHANGED <<flashVariant, flTorchCap, flPhase, flVideo, flError,
                   flCameraReady, flCam, flShot, flApi>>
    /\ UNCHANGED <<routeVars, engineVars, hookVars, assessVars>>

\* The catch block of capturePhoto: part_002 120-123, part_004 650-654,
\* FlashLightTest.tsx 441-445.  None of them touches the torch.
CaptureCatch ==
    /\ flError' = Upd(flError, flashVariant # "a")
    /\ SetFlPhase(CASE flashVariant = "a" -> "ready"
                    [] flashVariant = "c" -> "complete"
                    [] OTHER -> "error")

\* The countdown effect at zero, and capturePhoto up to its first await:
\* part_002 64-86, part_004 594-613, FlashLightTest.tsx 341-390.
\* Version a returns without a word when a ref is empty; version d
\* reports it, and gives up when the video has no dimensions after 1 s.
FlCapturePhoto ==
    /\ flPhase = "countdown"
    /\ flCountdown = 0
    /\ flCapture.pc = "idle"
    /\ LET begun == [pc |-> IF flTorchCap /\ flStreamRef # 0 THEN "torchOn"
                                                             ELSE "delay",
                     track |-> flStreamRef,
                     video |-> flVideo,
                     photo |-> 0]
       IN IF flashVariant # "c" /\ ~(flStreamRef # 0 /\ flVideo # "none")
          THEN /\ flCapture' = IdleCapture
               /\ IF flashVariant = "a"
                  THEN /\ SetFlPhase("capture")
                       /\ UNCHANGED flError
                  ELSE /\ flError' = TRUE
                       /\ SetFlPhase("error")
          ELSE IF flashVariant = "d" /\ flVideo # "loaded"
          THEN /\ flCapture' = IdleCapture
               /\ flError' = TRUE
               /\ SetFlPhase("ready")
          ELSE /\ flCapture' = begun
               /\ SetFlPhase("capture")
               /\ UNCHANGED flError
    /\ UNCHANGED <<flashVariant, flTorchCap, flCountdown, flCameraReady, flCam,
                   flCapturedPhoto, flPhotos, flApi>>
    /\ UNCHANGED <<routeVars, engineVars, hookVars, assessVars>>

\* track.applyConstraints({advanced: [{torch: true}]}) settles: part_002
\* 79-83, part_004 608-612, FlashLightTest.tsx 379-389.  It fails on a
\* stopped track.  Version d catches the failure and goes on.
FlTorchOnSettled ==
    /\ flCapture.pc = "torchOn"
    /\ \E accepted \in BOOLEAN :
          LET ok == accepted /\ flCapture.track \in flTracks
          IN /\ flTorch' = IF ok THEN flCapture.track ELSE flTorch
             /\ IF ~(~ok /\ flashVariant # "d")
                THEN /\ flCapture' = [flCapture EXCEPT !.pc = "delay"]
                     /\ UNCHANGED <<flPhase, flVideo, flError>>
                ELSE /\ flCapture' = IdleCapture
                     /\ CaptureCatch
    /\ UNCHANGED <<flashVariant, flTorchCap, flCountdown, flCameraReady,
                   flCamera, flStreamRef, flTracks, flOpened, flCapturedPhoto,
                   flPhotos, flApi>>
    /\ UNCHANGED <<routeVars, engineVars, hookVars, assessVars>>

\* After the pause that lets the flash light up, the frame is drawn:
\* part_002 86-98, part_004 615-628, FlashLightTest.tsx 392-402.  Versions
\* a and c read videoRef.current now, after the capture screen has
\* replaced the <video>: a dereferences it (TypeError, caught), c skips the
\* rest of the function.  Version d uses the element it read before the
\* awaits; getContext may return null and drawImage may throw.
FlDrawFrame ==
    /\ flCapture.pc = "delay"
    /\ \E drawn \in BOOLEAN :
          IF flashVariant = "a"
          THEN IF ~(flVideo # "none" /\ drawn)
               THEN /\ flCapture' = IdleCapture
                    /\ CaptureCatch
               ELSE /\ flCapture' = [flCapture EXCEPT !.pc = "torchOff",
                                                      !.video = flVideo]
                    /\ UNCHANGED <<flPhase, flVideo, flError>>
          ELSE IF flashVariant = "c"
          THEN IF flVideo = "none"
               THEN /\ flCapture' = IdleCapture
                    /\ UNCHANGED <<flPhase, flVideo, flError>>
               ELSE IF ~drawn
               THEN /\ flCapture' = IdleCapture
                    /\ CaptureCatch
               ELSE /\ flCapture' = [flCapture EXCEPT !.pc = "blob",
                                                      !.video = flVideo]
                    /\ UNCHANGED <<flPhase, flVideo, flError>>
          ELSE IF ~drawn
               THEN /\ flCapture' = IdleCapture
                    /\ CaptureCatch
               ELSE /\ flCapture' =
                          [flCapture EXCEPT !.pc = IF flTorchCap THEN "torchOff"
                                                                 ELSE "blob"]
                    /\ UNCHANGED <<flPhase, flVideo, flError>>
    /\ UNCHANGED <<flashVariant, flTorchCap, flCountdown, flCameraReady, flCam,
                   flCapturedPhoto, flPhotos, flApi>>
    /\ UNCHANGED <<routeVars, engineVars, hookVars, assessVars>>

\* track.applyConstraints({advanced: [{torch: false}]}) settles: part_002
\* 100-105, FlashLightTest.tsx 404-414.  Version d catches a failure.
FlTorchOffSettled ==
    /\ flCapture.pc = "torchOff"
    /\ \E accepted \in BOOLEAN :
          LET ok == accepted /\ flCapture.track \in flTracks
          IN /\ flTorch' = IF ok /\ flTorch = flCapture.track THEN 0 ELSE flTorch
             /\ IF ~(~ok /\ flashVariant # "d")
                THEN /\ flCapture' = [flCapture EXCEPT !.pc = "blob"]
                     /\ UNCHANGED <<flPhase, flVideo, flError>>
                ELSE /\ flCapture' = IdleCapture
                     /\ CaptureCatch
    /\ UNCHANGED <<flashVariant, flTorchCap, flCountdown, flCameraReady,
                   flCamera, flStreamRef, flTracks, flOpened, flCapturedPhoto,
                   flPhotos, flApi>>
    /\ UNCHANGED <<routeVars, engineVars, hookVars, assessVars>>

\* canvas.toBlob calls back: part_002 107-118, part_004 630-646,
\* FlashLightTest.tsx 416-439.  The blob is null when the canvas has no
\* area (the video had no dimensions) or cannot be encoded.  Versions a and
\* c do nothing for a null blob.  The callback of version c reads
\* `capabilities`, a const of an inner block of capturePhoto (604-612),
\* whenever there is a track: a ReferenceError ends the callback before the
\* torch is turned off and before the photo is sent.
FlBlobReady ==
    /\ flCapture.pc = "blob"
    /\ \E encoded \in BOOLEAN :
          LET blob == encoded /\ flCapture.video = "loaded"
              shot == flPhotos + 1
          IN IF ~blob
             THEN /\ flCapture' = IdleCapture
                  /\ UNCHANGED <<flCapturedPhoto, flPhotos>>
                  /\ IF flashVariant = "d"
                     THEN /\ flError' = Upd(flError, TRUE)
                          /\ SetFlPhase("error")
                     ELSE UNCHANGED <<flPhase, flVideo, flError>>
             ELSE /\ flPhotos' = shot
                  /\ flCapturedPhoto' = Upd(flCapturedPhoto, shot)
                  /\ UNCHANGED flError
                  /\ IF flashVariant = "c"
                     THEN /\ flCapture' = IdleCapture
                          /\ IF flCapture.track # 0
                             THEN UNCHANGED <<flPhase, flVideo>>
                             ELSE SetFlPhase("processing")
                     ELSE /\ flCapture' = IF flashVariant = "d"
                                          THEN [flCapture EXCEPT !.pc = "show",
                                                                 !.photo = shot]
                                          ELSE IdleCapture
                          /\ SetFlPhase("result")
    /\ UNCHANGED <<flashVariant, flTorchCap, flCountdown, flCameraReady, flCam,
                   flApi>>
    /\ UNCHANGED <<routeVars, engineVars, hookVars, assessVars>>

\* Version d, 500 ms after the photo: setShowResult(true) and sendToAPI up
\* to its fetch (FlashLightTest.tsx 434-437 and 449-461), then the cleanup
\* of the camera effect, which depends on showResult (305-316): the tracks
\* of streamRef.current are stopped.  PhotoResult replaces the camera
\* screen.
FlShowResult ==
    /\ flCapture.pc = "show"
    /\ flCapture' = IdleCapture
    /\ flShowResult' = Upd(flShowResult, TRUE)
    /\ flIsAnalyzing' = Upd(flIsAnalyzing, TRUE)
    /\ flSends' = flSends \cup {flCapture.photo}
    /\ IF flPhase = "left" THEN UNCHANGED <<flTracks, flTorch>>
                           ELSE StopTracks({flStreamRef})
    /\ UNCHANGED <<flashVariant, flTorchCap, flPhase, flVideo, flCountdown,
                   flError, flCameraReady, flCamera, flStreamRef, flOpened,
                   flCapturedPhoto, flPhotos, flAnalysisResult>>
    /\ UNCHANGED <<routeVars, engineVars, hookVars, assessVars>>

\* The fetch of sendToAPI settles: FlashLightTest.tsx 463-490.  The result
\* of the service or the fallback result is stored, then isAnalyzing is
\* set to false.
FlApiAnswer ==
    /\ \E shot \in flSends, ok \in BOOLEAN :
          /\ flSends' = flSends \ {shot}
          /\ flAnalysisResult' =
                Upd(flAnalysisResult, [photo |-> shot, fallback |-> ~ok])
    /\ flIsAnalyzing' = Upd(flIsAnalyzing, FALSE)
    /\ UNCHANGED <<flashVariant, flTorchCap, flPhase, flVideo, flCountdown,
                   flError, flCameraReady, flCam, flShot, flShowResult>>
    /\ UNCHANGED <<routeVars, engineVars, hookVars, assessVars>>

\* A PhotoResult that would render its buttons during the analysis as well.
RetakeShownAlways ==
    /\ flShowResult
    /\ flCapturedPhoto # 0

\* PhotoResult renders Take Another Photo and Done only while isAnalyzing
\* is false: FlashLightTest.tsx 164-179.
RetakeShown ==
    /\ flShowResult
    /\ flCapturedPhoto # 0
    /\ ~flIsAnalyzing

\* reset: part_002 133-140, FlashLightTest.tsx 492-503 (handleRetake), and
\* resetTest of version c, part_004 710-717, which also stops the camera.
\* In version d showResult becomes false, so the camera effect is cleaned
\* up and run again: initCamera calls getUserMedia.
FlReset ==
    /\ CASE flashVariant = "a" -> flPhase = "result" /\ flCapturedPhoto # 0
         [] flashVariant = "c" -> flPhase = "complete"
         [] OTHER -> flPhase # "left" /\ RetakeShown
    /\ flCapturedPhoto' = 0
    /\ flCountdown' = 5
    /\ SetFlPhase(IF flashVariant = "c" THEN "intro" ELSE "ready")
    /\ flError' = IF flashVariant = "a" THEN flError ELSE FALSE
    /\ IF flashVariant = "d"
       THEN /\ flShowResult' = FALSE
            /\ flCameraReady' = FALSE
            /\ flIsAnalyzing' = FALSE
            /\ flAnalysisResult' = NoAnalysis
            /\ flCamera' = "first"
            /\ StopTracks({flStreamRef})
            /\ UNCHANGED <<flStreamRef, flSends>>
       ELSE /\ IF flashVariant = "c"
               THEN /\ StopTracks({flStreamRef})
                    /\ flStreamRef' = 0
                    /\ flAnalysisResult' = NoAnalysis
               ELSE UNCHANGED <<flTracks, flTorch, flStreamRef,
                                flAnalysisResult>>
            /\ UNCHANGED <<flShowResult, flCameraReady, flIsAnalyzing,
                           flCamera, flSends>>
    /\ UNCHANGED <<flashVariant, flTorchCap, flOpened, flCapture, flPhotos>>
    /\ UNCHANGED <<routeVars, engineVars, hookVars, assessVars>>

\* Retry Camera on the error screen of version d reloads the page:
\* FlashLightTest.tsx 512-517.  The page and everything it had started are
\* gone, and the component mounts anew.
FlReload ==
    /\ flashVariant = "d"
    /\ flPhase = "error"
    /\ flPhase' = "ready"
    /\ flVideo' = "blank"
    /\ flCountdown' = 5
    /\ flError' = FALSE
    /\ flCameraReady' = FALSE
    /\ flCamera' = "first"
    /\ flStreamRef' = 0
    /\ flTracks' = {}
    /\ flTorch' = 0
    /\ flCapture' = IdleCapture
    /\ flCapturedPhoto' = 0
    /\ flShowResult' = FALSE
    /\ flIsAnalyzing' = FALSE
    /\ flAnalysisResult' = NoAnalysis
    /\ flSends' = {}
    /\ UNCHANGED <<flashVariant, flTorchCap, flOpened, flPhotos>>
    /\ UNCHANGED <<routeVars, engineVars, hookVars, assessVars>>

\* onBack: the parent unmounts the component, and the cleanup of the camera
\* effect stops the tracks of streamRef.current (part_002 46-50, part_004
\* 692-707, FlashLightTest.tsx 305-315).  Versions a and d show the button
\* in the header of every screen; version c on the intro screen, on the
\* permission screen once an error is shown and on the last screen.
FlBack ==
    /\ flPhase # "left"
    /\ flashVariant = "c" =>
          IF flPhase = "permission" THEN flError
                                    ELSE flPhase \in {"intro", "complete"}
    /\ flPhase' = "left"
    /\ flVideo' = "none"
    /\ StopTracks({flStreamRef})
    /\ flStreamRef' = IF flashVariant = "c" THEN 0 ELSE flStreamRef
    /\ UNCHANGED <<flashVariant, flTorchCap, flCountdown, flError,
                   flCameraReady, flCamera, flOpened, flShot, flApi>>
    /\ UNCHANGED <<routeVars, engineVars, hookVars, assessVars>>

----------------------------------------------------------------------------
(* Specifications *)

\* The engine analysing one video.
InitEngine ==
    /\ engPc = "ingest"
    /\ engTotal \in 0..MaxFrames
    /\ engNext = 1
    /\ engObs = <<>>
    /\ engFailed = {}
    /\ engDet = DetectorInit
    /\ engEvents = <<>>
    /\ engEntered = 0
    /\ engResult = BuildResult(0, <<>>, <<>>)
    /\ served = <<>>
    /\ clock = 0
    /\ savedFiles = {}
    /\ hookVariant = "mobile"
    /\ HookIdle
    /\ AssessAbsent
    /\ FlashAbsent

NextEngine ==
    \/ Ingest
    \/ ProcessFrame
    \/ Finish

SpecEngine == InitEngine /\ [][NextEngine]_vars

\* The upload routes serving requests.
InitRoute ==
    /\ served = <<>>
    /\ clock = 0
    /\ savedFiles = {}
    /\ EngineIdle
    /\ hookVariant = "mobile"
    /\ HookIdle
    /\ AssessAbsent
    /\ FlashAbsent

NextRoute ==
    \/ FlashlightPOST
    \/ SaveVideoPOST

SpecRoute == InitRoute /\ [][NextRoute]_vars

\* The hook, in any of its versions, under an arbitrary caller.
Init ==
    /\ hookVariant \in HookVariants
    /\ HookIdle
    /\ served = <<>>
    /\ clock = 0
    /\ savedFiles = {}
    /\ EngineIdle
    /\ AssessAbsent
    /\ FlashAbsent

Next ==
    \/ CallStartRecording
    \/ CallStopRecording
    \/ CallRetryAnalysis
    \/ CallCleanupStreams
    \/ CallCleanupResources
    \/ CameraAnswer
    \/ RecorderStarted
    \/ DataAvailable
    \/ RecorderStopEvent
    \/ HealthAnswer
    \/ ProgressTick
    \/ UploadAnswer
    \/ UploadReject
    \/ TimeoutFire
    \/ AbortDelivered
    \/ MockTimerFires
    \/ HookCleanupEffect

Spec == Init /\ [][Next]_vars

\* The same with the browser doing its part, whatever the service and the
\* caller do: an armed timer fires, an aborted fetch rejects, a queued
\* media event is delivered and a pending effect runs.  No answer of the
\* service is promised.
FairSpec ==
    /\ Spec
    /\ WF_vars(TimeoutFire)
    /\ WF_vars(AbortDelivered)
    /\ WF_vars(MockTimerFires)
    /\ WF_vars(RecorderStarted)
    /\ WF_vars(RecorderStopEvent)
    /\ WF_vars(HookCleanupEffect)

\* The assessment component with the hook it mounts.
InitAssess ==
    /\ assessVariant \in AssessVariants
    /\ hookVariant \in HooksOf(assessVariant)
    /\ AssessMounted
    /\ FlashAbsent
    /\ HookIdle
    /\ served = <<>>
    /\ clock = 0
    /\ savedFiles = {}
    /\ EngineIdle

NextAssess ==
    \/ PressButton
    \/ ToggleConsent
    \/ requestPermission
    \/ PermissionContinues
    \/ CountdownTick
    \/ startAssessment
    \/ AssessmentRuns
    \/ AssessmentTimeUp
    \/ AssessmentStopped
    \/ ProcessingDone
    \/ resetAssessment
    \/ Leave
    \/ CameraAnswer
    \/ RecorderStarted
    \/ DataAvailable
    \/ RecorderStopEvent
    \/ UploadAnswer
    \/ UploadReject
    \/ TimeoutFire
    \/ AbortDelivered
    \/ HookCleanupEffect

SpecAssess == InitAssess /\ [][NextAssess]_vars

\* The same with the browser doing its part: a promise that is settled
\* runs its continuation, a timer that is armed fires, a queued event is
\* delivered and the camera prompt is answered.  The user may stop pressing
\* buttons at any time.
FairSpecAssess ==
    /\ SpecAssess
    /\ WF_vars(PermissionContinues)
    /\ WF_vars(CountdownTick)
    /\ WF_vars(startAssessment)
    /\ WF_vars(AssessmentRuns)
    /\ WF_vars(AssessmentTimeUp)
    /\ WF_vars(AssessmentStopped)
    /\ WF_vars(ProcessingDone)
    /\ WF_vars(CameraAnswer)
    /\ WF_vars(RecorderStarted)
    /\ WF_vars(RecorderStopEvent)
    /\ WF_vars(HookCleanupEffect)

\* The flashlight component, mounted alone.
InitFlash ==
    /\ flashVariant \in FlashVariants
    /\ flTorchCap \in BOOLEAN
    /\ FlashMounted
    /\ served = <<>>
    /\ clock = 0
    /\ savedFiles = {}
    /\ EngineIdle
    /\ hookVariant = "mobile"
    /\ HookIdle
    /\ AssessAbsent

NextFlash ==
    \/ FlRequestCameraPermission
    \/ FlCameraAnswer
    \/ FlVideoLoaded
    \/ FlVideoError
    \/ FlInstructionsBack
    \/ FlStartCountdown
    \/ FlCountdownTick
    \/ FlCapturePhoto
    \/ FlTorchOnSettled
    \/ FlDrawFrame
    \/ FlTorchOffSettled
    \/ FlBlobReady
    \/ FlShowResult
    \/ FlApiAnswer
    \/ FlReset
    \/ FlReload
    \/ FlBack

SpecFlash == InitFlash /\ [][NextFlash]_vars

\* The same with the browser doing its part: timers fire, promises of the
\* browser settle and their continuations run.  The user and the analysis
\* service may stay silent.
FairSpecFlash ==
    /\ SpecFlash
    /\ WF_vars(FlCameraAnswer)
    /\ WF_vars(FlCountdownTick)
    /\ WF_vars(FlCapturePhoto)
    /\ WF_vars(FlTorchOnSettled)
    /\ WF_vars(FlDrawFrame)
    /\ WF_vars(FlTorchOffSettled)
    /\ WF_vars(FlBlobReady)
    /\ WF_vars(FlShowResult)

\* Either component mounted alone: the screens that count down.
SpecScreens == (InitAssess \/ InitFlash) /\ [][NextAssess \/ NextFlash]_vars


----------------------------------------------------------------------------
(* Claims about the upload routes, checked under SpecRoute *)

FlashlightEntries == {i \in 1..Len(served) : served[i].endpoint = "flashlight-test"}

\* The upstream detection service could not be reached or answered non-2xx.
UpstreamFailed(e) ==
    \/ e.upstream.kind = "reject"
    \/ e.upstream.kind = "answer" /\ ~IsOk(e.upstream.status)

\* C2: when the detection service cannot be reached (the request is rejected
\* or upstream answers non-2xx) the flashlight-test route does not answer
\* success=true with a result verdict.
C2_UnreachableServiceIsExplicitFailure ==
    \A i \in FlashlightEntries :
        UpstreamFailed(served[i]) =>
            ~(/\ Field(served[i].response.body, "success") = "true"
              /\ "result" \in DOMAIN served[i].response.body)

\* The request could not be served: no file, upstream failure, internal error.
RequestFailed(e) ==
    \/ ~e.formOk
    \/ e.file = NoPhoto
    \/ UpstreamFailed(e)

\* C3: every failure response of an upload endpoint has success=false, a
\* string message and a non-2xx status; every 2xx response carries
\* success=true; a missing file, an upstream failure and an internal error
\* are all answered by a failure response.
C3_FailureResponseShape ==
    \A i \in 1..Len(served) :
        LET r == served[i].response
        IN /\ ~IsOk(r.status) =>
                /\ Field(r.body, "success") = "false"
                /\ "message" \in DOMAIN r.body
           /\ IsOk(r.status) => Field(r.body, "success") = "true"
           /\ RequestFailed(served[i]) => ~IsOk(r.status)

\* The caller-visible verdict of a flash-reflex response.
Verdict(body) ==
    <<Field(body, "result"), Field(body, "leukocoria"), Field(body, "message"),
      IF "confidence" \in DOMAIN body THEN body.confidence ELSE -1>>

\* C4: two flash-reflex requests carrying the same photo under the same
\* upstream behaviour produce the same result, leukocoria flag, message and
\* confidence.
C4_FlashReflexDeterministic ==
    \A i, j \in FlashlightEntries :
        (/\ served[i].formOk = served[j].formOk
         /\ served[i].file = served[j].file
         /\ served[i].upstream = served[j].upstream)
        => Verdict(served[i].response.body) = Verdict(served[j].response.body)

\* C5: in every flash-reflex response with success=true, result is a boolean,
\* result is the negation of the leukocoria flag, and the message text agrees
\* with the verdict.
C5_ResultIsNotLeukocoria ==
    \A i \in FlashlightEntries :
        LET body == served[i].response.body
        IN Field(body, "success") = "true" =>
            /\ Field(body, "result") \in {"true", "false"}
            /\ Field(body, "result") = JSNot(Field(body, "leukocoria"))
            /\ Field(body, "result") = "true" =>
                   Field(body, "message") \in {MsgNormal, MsgDemoNormal}
            /\ Field(body, "result") = "false" =>
                   Field(body, "message") \in {MsgLeukocoria, MsgDemoLeukocoria}

\* C5 witness: the route has answered a genuine detection of leukocoria
\* (result=false) and a genuine normal reflex (result=true).
C5_Witness ==
    \E i, j \in FlashlightEntries :
        /\ served[i].upstream.kind = "answer" /\ IsOk(served[i].upstream.status)
        /\ served[i].upstream.leukocoria = "true"
        /\ Field(served[i].response.body, "result") = "false"
        /\ served[j].upstream.kind = "answer" /\ IsOk(served[j].upstream.status)
        /\ served[j].upstream.leukocoria = "false"
        /\ Field(served[j].response.body, "result") = "true"

----------------------------------------------------------------------------
(* Claims about the hook, checked under Spec *)

TimedOutMessage == ErrorTexts("AbortError").message

\* C1: when the abort timer of a run fires before the upload is answered,
\* the run ends with analysisError set to the timed-out message and
\* without assigning analysisResults (mobile and render versions of the
\* hook).
C1_TimeoutIsExplicitFailure ==
    [][\A i \in 1..Len(runs) :
          (/\ hookVariant \in {"mobile", "render"}
           /\ runs[i].pc = "aborting"
           /\ runs[i].abortedBy = "timeout"
           /\ runs'[i].pc = "done")
          => (/\ analysisError' = TimedOutMessage
              /\ analysisResults' = analysisResults)]_vars

\* C6: a run of analyzeVideoWithAPI sends at most one POST /upload, also
\* after a failure or a timeout; every run was invoked by the stop of a
\* recording or by retryAnalysis, and the runs invoked by a stop are no more
\* than the recordings stopped; so no more uploads are sent than runs were
\* invoked.
C6_NoAutomaticRetry ==
    /\ \A i \in 1..Len(runs) :
          /\ runs[i].posts <= 1
          /\ runs[i].origin \in {"stop", "retry"}
    /\ postsSent <= Len(runs)
    /\ hookVariant # "mock" =>
          Cardinality({i \in 1..Len(runs) : runs[i].origin = "stop"}) = blobsCreated

\* C6 witness: a run that timed out and a run that could not reach the
\* service both ended with the fallback, each after exactly one upload.
C6_Witness ==
    /\ Len(runs) = 2
    /\ \A i \in 1..2 : runs[i].pc = "done" /\ runs[i].stored = "fallback"
    /\ runs[1].abortedBy = "timeout"
    /\ runs[2].abortedBy = "none" /\ runs[2].timer = "armed"
    /\ runs[1].posts = 1 /\ runs[2].posts = 1
    /\ postsSent = 2

\* An AnalysisResult is stored in analysisResults.
ResultStored == "analysis" \in DOMAIN analysisResults

\* The AnalysisResults the service computes for the videos.
ServerResults == {r.analysis : r \in {x \in ServerResponses : IsOk(x.status)}}

\* C8: every AnalysisResult stored in analysisResults, from the server or
\* built locally, has 0 <= frames_with_face <= frames_analyzed <= total_frames.
C8_FrameCountsOrdered ==
    ResultStored =>
        /\ 0 <= analysisResults.analysis.frames_with_face
        /\ analysisResults.analysis.frames_with_face
              <= analysisResults.analysis.frames_analyzed
        /\ analysisResults.analysis.frames_analyzed
              <= analysisResults.video_info.total_frames

\* C8 witness: a server result in which the three counts differ is stored,
\* after another run stored a locally built result.
C8_Witness ==
    /\ ResultStored
    /\ analysisResults \in ServerResults
    /\ analysisResults.analysis.frames_with_face
          < analysisResults.analysis.frames_analyzed
    /\ analysisResults.analysis.frames_analyzed
          < analysisResults.video_info.total_frames
    /\ \E i \in 1..Len(runs) : runs[i].stored = "fallback"

\* C9: in every AnalysisResult stored in analysisResults,
\* lazy_eye_detections is the number of detection_events, and the events
\* are in non-decreasing order of timestamp.
C9_DetectionsMatchEvents ==
    ResultStored =>
        LET evs == analysisResults.analysis.detection_events
        IN /\ analysisResults.analysis.lazy_eye_detections = Len(evs)
           /\ \A j, k \in 1..Len(evs) :
                 j < k => evs[j].timestamp <= evs[k].timestamp

\* C9 witness: a server result with two events at different timestamps is
\* stored after an earlier run stored the fallback.
C9_Witness ==
    /\ ResultStored
    /\ analysisResults \in ServerResults
    /\ analysisResults.analysis.lazy_eye_detections = 2
    /\ Len(analysisResults.analysis.detection_events) = 2
    /\ analysisResults.analysis.detection_events[1].timestamp
          < analysisResults.analysis.detection_events[2].timestamp
    /\ \E i \in 1..Len(runs) : runs[i].stored = "fallback"

----------------------------------------------------------------------------
(* Claims about the analysis engine, checked under SpecEngine *)

FaceFound(obs) == obs.face_found

\* The DisplacementSample stream fed to the detector so far.
EngSamples ==
    LET withFace == SelectSeq(engObs, FaceFound)
    IN [k \in 1..Len(withFace) |-> SampleOf(withFace[k])]

\* Samples k..k+n-1 exist and all exceed T_enter.
ExceedingRun(smps, k, n) ==
    /\ k + n - 1 <= Len(smps)
    /\ \A j \in k..(k + n - 1) : Asymmetry(smps[j]) > T_enter

\* The events the detector has produced: emitted, or open in InEvent.
EngProduced ==
    engEvents \o (IF engDet.mode = "InEvent" THEN <<EventOf(engDet)>> ELSE <<>>)

\* C10: the detector leaves Idle only after the asymmetry has exceeded
\* T_enter for at least min_sustain consecutive samples: every event, emitted
\* or open, begins a run of min_sustain consecutive exceeding samples, so a
\* shorter run produces no DetectionEvent.
C10_EventNeedsSustainedExceedance ==
    \A e \in 1..Len(EngProduced) :
        \E k \in 1..Len(EngSamples) :
            /\ EngSamples[k].timestamp = EngProduced[e].timestamp
            /\ ExceedingRun(EngSamples, k, MinSustain)

\* C10 witness: a finished run whose samples held a run of min_sustain - 1
\* consecutive exceeding samples, ended by a sample that does not exceed,
\* and no longer one: the result has no DetectionEvent.
C10_Witness ==
    /\ engPc = "done"
    /\ \E k \in 1..Len(EngSamples) :
          /\ ExceedingRun(EngSamples, k, MinSustain - 1)
          /\ k + MinSustain - 1 <= Len(EngSamples)
          /\ Asymmetry(EngSamples[k + MinSustain - 1]) = T_enter
    /\ ~ \E k \in 1..Len(EngSamples) : ExceedingRun(EngSamples, k, MinSustain)
    /\ engResult.analysis.lazy_eye_detections = 0
    /\ engResult.analysis.detection_events = <<>>

\* Samples a..b of smps are a single sustained span: they all exceed
\* T_enter and are at least min_sustain, no sample before them exceeds
\* T_enter, and the samples after them, of which there is one at least, are
\* all below T_exit.
SingleSpan(smps, a, b) ==
    /\ 1 <= a
    /\ b < Len(smps)
    /\ b - a + 1 >= MinSustain
    /\ \A j \in 1..(a - 1) : Asymmetry(smps[j]) <= T_enter
    /\ \A j \in a..b : Asymmetry(smps[j]) > T_enter
    /\ \A j \in (b + 1)..Len(smps) : Asymmetry(smps[j]) < T_exit

\* Sample j has the largest asymmetry among samples a..b.
PeakAt(smps, a, b, j) ==
    /\ j \in a..b
    /\ \A i \in a..b : Asymmetry(smps[i]) <= Asymmetry(smps[j])

\* C11: a series with a single sustained span above T_enter, followed by a
\* return below T_exit, yields exactly one DetectionEvent; its timestamp is
\* that of the first sample of the span and its left and right displacement
\* are those of a sample of the span at which the asymmetry peaks.
C11_SingleSpanSingleEvent ==
    engPc = "done" =>
        \A a \in 1..Len(EngSamples), b \in 1..Len(EngSamples) :
            SingleSpan(EngSamples, a, b) =>
                LET evs == engResult.analysis.detection_events
                IN /\ Len(evs) = 1
                   /\ engResult.analysis.lazy_eye_detections = 1
                   /\ evs[1].timestamp = EngSamples[a].timestamp
                   /\ \E j \in a..b :
                         /\ PeakAt(EngSamples, a, b, j)
                         /\ evs[1].left_displacement = EngSamples[j].left_displacement
                         /\ evs[1].right_displacement = EngSamples[j].right_displacement

\* C11 witness: a finished run over a frame without a face, a quiet sample,
\* a span whose peak is not its first sample, and min_release samples below
\* T_exit: one event, stamped with the first sample of the span.
C11_Witness ==
    /\ engPc = "done"
    /\ Len(engObs) > Len(EngSamples)
    /\ \E a \in 2..Len(EngSamples), b \in 1..Len(EngSamples) :
          /\ SingleSpan(EngSamples, a, b)
          /\ Len(EngSamples) - b >= MinRelease
          /\ ~PeakAt(EngSamples, a, b, a)
          /\ Len(engResult.analysis.detection_events) = 1
          /\ engResult.analysis.detection_events[1].timestamp = EngSamples[a].timestamp
          /\ engResult.analysis.detection_events[1].timestamp # a - 1

\* The last n samples of smps exist and are all below T_exit.
QuietTail(smps, n) ==
    /\ Len(smps) >= n
    /\ \A j \in (Len(smps) - n + 1)..Len(smps) : Asymmetry(smps[j]) < T_exit

\* C12: with T_exit <= T_enter, a frame takes the detector from InEvent to
\* Idle only when the last min_release samples are all below T_exit; any
\* other frame met in InEvent (a dip shorter than min_release, a sample
\* between T_exit and T_enter) leaves the detector in the same event and
\* emits nothing, so one event is not split into two.
C12_ReleaseNeedsSustainedQuiet ==
    [][(engDet.mode = "InEvent" /\ engPc' = "frames") =>
          /\ T_exit <= T_enter
          /\ IF QuietTail(EngSamples', MinRelease)
             THEN /\ engDet'.mode = "Idle"
                  /\ Len(EngSamples') > Len(EngSamples)
                  /\ Len(engEvents') = Len(engEvents) + 1
             ELSE /\ engDet'.mode = "InEvent"
                  /\ engDet'.onset = engDet.onset
                  /\ engEvents' = engEvents]_vars

\* C12 witness: the detector is in its first event, nothing is emitted, and
\* the event has met a one-sample dip below T_exit followed by a sample
\* between T_exit and T_enter.
C12_Witness ==
    /\ engDet.mode = "InEvent"
    /\ engEntered = 1
    /\ engEvents = <<>>
    /\ \E k \in 1..(Len(EngSamples) - 1) :
          /\ EngSamples[k].timestamp > engDet.onset
          /\ Asymmetry(EngSamples[k]) < T_exit
          /\ Asymmetry(EngSamples[k + 1]) >= T_exit
          /\ Asymmetry(EngSamples[k + 1]) <= T_enter

\* C13: no entered event is dropped: at every step the events produced,
\* emitted or open, are as many as the entries into InEvent, and the step
\* that ends the sample stream puts as many events into the result; an
\* event open at that step is emitted last, stamped with its onset and
\* carrying the displacements at the peak asymmetry observed since.
C13_OpenEventEmitted ==
    [][/\ Len(EngProduced') = engEntered'
       /\ (engPc = "frames" /\ engPc' = "done") =>
             LET evs == engResult'.analysis.detection_events
                 smps == EngSamples
             IN /\ Len(evs) = engEntered
                /\ engResult'.analysis.lazy_eye_detections = engEntered
                /\ engDet.mode = "InEvent" =>
                      /\ Len(evs) = Len(engEvents) + 1
                      /\ evs[Len(evs)].timestamp = engDet.onset
                      /\ \E a \in 1..Len(smps), j \in 1..Len(smps) :
                            /\ smps[a].timestamp = engDet.onset
                            /\ PeakAt(smps, a, Len(smps), j)
                            /\ evs[Len(evs)].left_displacement
                                  = smps[j].left_displacement
                            /\ evs[Len(evs)].right_displacement
                                  = smps[j].right_displacement]_vars

\* C13 witness: a finished run whose final sample still exceeded T_enter:
\* InEvent was entered once, and the result holds the one event, with a
\* peak that is not the first sample of the span.
C13_Witness ==
    /\ engPc = "done"
    /\ engEntered = 1
    /\ Len(EngSamples) > MinSustain
    /\ Asymmetry(EngSamples[Len(EngSamples)]) > T_enter
    /\ Len(engResult.analysis.detection_events) = 1
    /\ \E a \in 1..Len(EngSamples) :
          /\ EngSamples[a].timestamp
                = engResult.analysis.detection_events[1].timestamp
          /\ ExceedingRun(EngSamples, a, Len(EngSamples) - a + 1)
          /\ engResult.analysis.detection_events[1].left_displacement
                # EngSamples[a].left_displacement

\* C14: a finished run in which no analysed frame has a face has
\* face_detection_rate 0, no detection event and risk LOW; and whenever the
\* face_detection_rate of a finished run is below the minimum coverage its
\* risk is LOW, as it would be for any other event count.
C14_LowCoverageIsLowRisk ==
    engPc = "done" =>
        LET a == engResult.analysis
        IN /\ (\A k \in 1..Len(engObs) : ~engObs[k].face_found) =>
                 /\ a.face_detection_rate = 0
                 /\ a.lazy_eye_detections = 0
                 /\ a.detection_events = <<>>
                 /\ engResult.risk_assessment.level = "LOW"
           /\ a.face_detection_rate < MinCoverage =>
                 /\ engResult.risk_assessment.level = "LOW"
                 /\ \A n \in 0..(EscalationCount + 1) :
                       RiskOf(n, a.face_detection_rate).level = "LOW"

\* C14 witness: a finished run with a detection event and faces in fewer
\* than half of its frames: the risk is LOW, not MEDIUM.
C14_Witness ==
    /\ engPc = "done"
    /\ engResult.analysis.lazy_eye_detections >= 1
    /\ engResult.analysis.frames_with_face > 0
    /\ engResult.analysis.face_detection_rate < MinCoverage
    /\ engResult.risk_assessment.level = "LOW"
    /\ engResult.risk_assessment.confidence = "low"

\* The indices of the frames observed so far.
EngObserved == {engObs[k].index : k \in 1..Len(engObs)}

\* C15: a detection failure on a frame does not abort the analysis: the
\* run fails on an undecodable video only, every frame on which detection
\* failed is among the observations with face_found = false and gives no
\* displacement sample, every sampled frame up to the current one has been
\* observed, and the finished run counts them all in frames_analyzed.
C15_FrameFailureIsLocal ==
    /\ engPc = "failed" => engTotal = 0
    /\ \A i \in engFailed :
          /\ \E k \in 1..Len(engObs) :
                engObs[k].index = i /\ ~engObs[k].face_found
          /\ \A k \in 1..Len(EngSamples) : EngSamples[k].timestamp # i - 1
    /\ EngObserved = {i \in SampledIndices(engTotal) : i < engNext}
    /\ engPc = "done" =>
          /\ EngObserved = SampledIndices(engTotal)
          /\ engResult.analysis.frames_analyzed
                = Cardinality(SampledIndices(engTotal))
          /\ engResult.analysis.frames_with_face
                <= engResult.analysis.frames_analyzed - Cardinality(engFailed)

\* C15 witness: a finished run in which detection failed on a frame, later
\* frames had a face and gave samples, and every frame is counted.
C15_Witness ==
    /\ engPc = "done"
    /\ \E i \in engFailed :
          \E k \in 1..Len(EngSamples) : EngSamples[k].timestamp > i - 1
    /\ engResult.analysis.frames_analyzed = engTotal
    /\ engResult.analysis.frames_with_face = engTotal - Cardinality(engFailed)
    /\ engResult.analysis.lazy_eye_detections = 1

----------------------------------------------------------------------------
(* Claims about the assessment component, checked under SpecAssess *)

\* The step shows the screen p, having shown another one before.
Enters(p) == phase' = p /\ phase # p

\* C7: the assessment visits its phases in order: every step that enters
\* 'countdown' leaves the camera-permission phase with the permission
\* granted, every step that enters 'assessment' leaves 'countdown' with the
\* count at 0, and every step that enters 'complete' follows a recording
\* that produced a video.
C7_PhasesInOrder ==
    [][/\ Enters("countdown") => (phase = "permission" /\ hasPermission)
       /\ Enters("assessment") => (phase = "countdown" /\ countdown = 0)
       /\ Enters("complete") => blobsCreated > 0]_vars

\* C16: when the 20 seconds of the assessment elapse while the phase is
\* 'assessment' and the MediaRecorder is recording (isRecording set), the
\* stopRecording() call stops the recorder and its promise waits for the
\* analysis of the recorded video: it is not resolved to null with the
\* recorder left recording.  The hooks concerned are those whose
\* stopRecording tests isRecording: videorec.tsx 263 and part_007 150.
C16_TimeUpStopsRecorder ==
    [][(/\ hookVariant \in {"mobile", "deploy"}
        /\ phase = "assessment"
        /\ recorder.ref
        /\ recorder.state = "recording"
        /\ isRecording
        /\ assessment.pc = "running"
        /\ assessment'.pc = "stopping")
       => (/\ recorder'.state = "inactive"
           /\ stopEvent'
           /\ stopPromise'.state = "pending")]_vars

\* C17: once the camera request made by requestPermission has succeeded
\* (the permission is held and no permission error is shown) while the
\* permission screen is up, the phase becomes 'countdown' without the user
\* doing anything more.
C17_GrantLeadsToCountdown ==
    (/\ assessVariant \in {"v1", "v2"}
     /\ phase = "permission"
     /\ hasPermission
     /\ permissionError = "null") ~> (phase = "countdown")

\* C18: a camera stream of the hook of videorec.tsx stays live, and
\* videoStream stays set, until the user goes back or presses Done (the
\* component unmounts) or resets the assessment: no other step stops the
\* tracks of a live stream or resets videoStream to null.
C18_StreamLiveUntilUserLeaves ==
    [][(/\ hookVariant = "mobile"
        /\ IF liveStreams \subseteq liveStreams'
           THEN videoStream # 0 /\ videoStream' = 0
           ELSE TRUE)
       => IF phase' = "left" THEN TRUE
          ELSE phase = "complete" /\ phase' = "intro"]_vars

----------------------------------------------------------------------------
(* Claims about the analysis runs of the hook, checked under FairSpec *)

\* C19: every analysis started by analyzeVideoWithAPI of videorec.tsx
\* terminates, even if the service answers no request of the run: once
\* isAnalyzing is true it becomes false again.
C19_AnalysisTerminates ==
    (hookVariant = "mobile" /\ isAnalyzing) ~> ~isAnalyzing

\* C20: when a run of analyzeVideoWithAPI of videorec.tsx has ended, for
\* whatever reason, its progress interval has been cleared: the interval
\* that rewrites analysisProgress fires only for a run that has not ended.
C20_EndedRunIsSilent ==
    [][ProgressTick =>
         \E i \in 1..Len(runs) :
            runs[i].pc # "done" /\ runs[i].interval = "armed"]_vars

----------------------------------------------------------------------------
(* Claims about the processing screen, checked under FairSpecAssess and
   SpecAssess *)

\* C21: in the version of the component that has a 'processing' phase, the
\* processing screen is left once no analysis is running, with or without
\* results: phase 'processing' with isAnalyzing false does not last forever.
C21_ProcessingEnds ==
    (assessVariant = "v3" /\ phase = "processing" /\ ~isAnalyzing)
        ~> (phase # "processing")

\* C22: in the version of the component that has a 'processing' phase, the
\* phase is 'processing' for as long as the analysis of the finished
\* recording is running.
C22_AnalysisShownAsProcessing ==
    (assessVariant = "v3" /\ isAnalyzing) => phase = "processing"

----------------------------------------------------------------------------
(* Claims about the results screen and the hook's analysis state, checked
   under Spec *)

\* C23: after an analysis of the hook of videorec.tsx has ended with
\* analysisError set and the recorded video retained, the results screen
\* offers Retry Analysis.
C23_RetryOfferedAfterError ==
    (/\ hookVariant = "mobile"
     /\ ~isAnalyzing
     /\ analysisError # "null"
     /\ lastRecordedVideo # 0) => RetryAnalysisShown

----------------------------------------------------------------------------
(* Claims about the countdown screens, checked under SpecScreens *)

\* What one step may do to the countdown of the assessment: it starts at
\* 3, goes down by 1 and not below 0, and the countdown screen is left by
\* startAssessment alone, which runs at 0.
AssessCountdownStep ==
    /\ Enters("countdown") => countdown' = 3
    /\ (phase = "countdown" /\ phase' = "countdown") =>
          (countdown' \in {countdown, countdown - 1} /\ countdown' >= 0)
    /\ (phase = "countdown" /\ phase' \notin {"countdown", "left"}) =>
          (startAssessment /\ countdown = 0)
    /\ (assessment.pc = "idle" /\ assessment'.pc = "starting") =>
          (phase = "countdown" /\ countdown = 0 /\ phase' = "assessment")

\* The same for the flashlight test: 5, and capturePhoto.
FlashCountdownStep ==
    /\ (flPhase # "countdown" /\ flPhase' = "countdown") => flCountdown' = 5
    /\ (flPhase = "countdown" /\ flPhase' = "countdown") =>
          (flCountdown' \in {flCountdown, flCountdown - 1} /\ flCountdown' >= 0)
    /\ FlCapturePhoto => (flCountdown = 0 /\ flPhase' # "countdown")
    /\ (flPhase = "countdown" /\ flCountdown = 0 /\ flPhase' = "capture") =>
          FlCapturePhoto

\* C24: during a countdown the counter goes from its initial value (3 for
\* the assessment, 5 for the flashlight test) down to 0 by steps of 1,
\* never below 0, and the follow-up action (startAssessment, capturePhoto)
\* is invoked once per countdown, when the counter is 0.
C24_CountdownCounts == [][AssessCountdownStep /\ FlashCountdownStep]_vars

\* The countdown of the flashlight test has reached 0 and capturePhoto,
\* invoked for it, has lit the torch.
C24_Witness ==
    /\ flPhase = "capture"
    /\ flCountdown = 0
    /\ flTorch # 0

----------------------------------------------------------------------------
(* Claims about the flashlight test, checked under FairSpecFlash and
   SpecFlash *)

\* C25: the flashlight test does not stay in phase 'capture' forever:
\* every invocation of capturePhoto ends with the phase set to another
\* one.
C25_CaptureEnds == (flPhase = "capture") ~> (flPhase # "capture")

\* C26: if capturePhoto of FlashLightTest.tsx or of part_004 600-654 turns
\* the torch on, the torch is off again when capturePhoto has finished, on
\* every path.
C26_TorchOffAfterCapture ==
    (flashVariant \in {"c", "d"} /\ flCapture.pc \in {"idle", "show"})
        => flTorch = 0

\* C27: once the flashlight component has unmounted and its getUserMedia
\* call has settled, none of the camera tracks it obtained is live.
C27_NoTrackOutlivesComponent ==
    (flPhase = "left" /\ flCamera = "none") => flTracks = {}

\* C28: the analysis result of FlashLightTest.tsx belongs to the photo on
\* display, and Take Another Photo is not offered while a sendToAPI call
\* is in flight, so that a late response attaches neither to a newer photo
\* nor to the cleared state.
C28_ResultBelongsToPhoto ==
    /\ flAnalysisResult # NoAnalysis => flAnalysisResult.photo = flCapturedPhoto
    /\ (flPhase # "left" /\ flSends # {}) => ~RetakeShown

\* The result of the second photo, taken after a retake, is on display.
C28_Witness ==
    /\ flShowResult
    /\ flSends = {}
    /\ flAnalysisResult.photo = 2
    /\ flCapturedPhoto = 2

----------------------------------------------------------------------------
(* Claims about consent, checked under SpecAssess *)

\* C29: on the screens from positioning to the results, that is, whenever
\* the assessment may request the camera or record, the consent box is
\* checked.
C29_ConsentBeforeCamera ==
    phase \in {"positioning", "permission", "countdown", "assessment",
               "processing", "complete"}
        => consentChecked

\* The results of an assessment whose recording was sent to the service
\* are on screen, the box still ticked.
C29_Witness ==
    /\ phase = "complete"
    /\ consentChecked
    /\ postsSent > 0

----------------------------------------------------------------------------
(* Claims about the stored analysis, checked under Spec *)

\* C30: in the hook of videorec.tsx, whenever no analysis is in flight and
\* a result is stored, an error message is stored exactly when the result
\* is the fallback built by the catch block.
C30_ErrorIffFallback ==
    (/\ hookVariant = "mobile"
     /\ \A i \in 1..Len(runs) : runs[i].pc = "done"
     /\ ResultStored)
        => (analysisError # "null"
              <=> analysisResults.risk_assessment.confidence
                     = "Demo Mode - Server Issue")

----------------------------------------------------------------------------
(* Claims about stopRecording, checked under Spec *)

\* A step in which stopRecording is called.
StopRecordingCalled == stopPromise'.call # stopPromise.call

\* The hook holds a recorder that is recording.
RecorderRecording == recorder.ref /\ recorder.state = "recording"

\* What C31 says of one step of the hook.
StopRecordingStep ==
    hookVariant \in {"mobile", "render"} =>
        /\ (StopRecordingCalled /\ ~RecorderRecording)
              => stopPromise'.state = "null"
        /\ (stopPromise'.state = "null" /\ stopPromise' # stopPromise)
              => IF StopRecordingCalled THEN ~RecorderRecording
                                        ELSE recordedChunks = 0
        /\ \A i \in 1..Len(runs') :
              (runs'[i].origin = "stop" /\ runs'[i].pc # "done")
                 => ~(/\ stopPromise'.call = runs'[i].call
                      /\ stopPromise'.state = "null")
        /\ stopPromise'.state = "file"
              => ~(stopEvent' /\ recorder'.onstop = stopPromise'.call)

\* C31: stopRecording of videorec.tsx and of part_007 527-617, called
\* without a recorder or with a recorder that is not recording, resolves to
\* null at once; its promise resolves to null only then or when the stop
\* event finds no chunk; a call resolved to null starts no upload; and the
\* promise resolves to the filename only once the stop event has run the
\* handler of that call.
C31_StopRecordingResolves == [][StopRecordingStep]_vars

----------------------------------------------------------------------------
(* Claims about the camera during the upload, checked under Spec *)

\* A step in which the onstop handler of part_007 549-605 invokes
\* analyzeVideoWithAPI.
AnalysisInvokedByStop ==
    /\ hookVariant = "render"
    /\ Len(runs') > Len(runs)
    /\ runs'[Len(runs')].origin = "stop"

\* An analysis started by stopRecording has not ended.
UploadRunning ==
    /\ hookVariant = "render"
    /\ \E i \in 1..Len(runs) : runs[i].origin = "stop" /\ runs[i].pc # "done"

\* The camera is off as far as the hook knows.
CameraReleased ==
    /\ liveStreams = {}
    /\ ~isRecording
    /\ videoStream = 0

============================================================================
